---------------------------- MODULE Spec2Model ----------------------------
(***************************************************************************)
(* Model of the execution-and-consensus pipeline of veritas-framework:     *)
(*   src/executor.py          CodeExecutor.run_file, verify_sample_tests,  *)
(*                            build_stress_predicted_tests,                *)
(*                            filter_by_stress_tests, majority_vote        *)
(*   src/async_stress_test.py CodeExecutor.run, StressTester.self_debug    *)
(*                                                                         *)
(* Each stage function is an asyncio coroutine.  A coroutine runs          *)
(* atomically between two awaits, so every action below is the code        *)
(* between two suspension points of one coroutine.  Python list/dict       *)
(* index 0 is index 1 here.  Text is a sequence of one-character strings.  *)
(***************************************************************************)
EXTENDS Integers, Sequences, FiniteSets, TLC

\* ------------------------------------------------------------------ bounds
NumStress   == 3    \* stress files in the stress directory, at most
NumCands    == 3    \* candidate files handed to a stage, at most
NumInputs   == 2    \* additional (unlabeled) inputs, at most
NumSamples  == 2    \* sample tests, at most
MaxExecs    == 6    \* files * inputs of one stage call, at most
MaxAgree    == 3    \* min_agree is drawn from 0..MaxAgree
MaxAttempts == 2    \* max_debug_attempts is drawn from 0..MaxAttempts
NumRuns     == 2    \* run calls made on one executor, at most
MaxConcurrency == 2 \* CodeExecutor(max_concurrency) is drawn from 1..MaxConcurrency
PipeCands   == 2    \* candidates generated in a pipeline run, at most
PipeStress  == 2    \* stress candidates generated in a pipeline run, at most
PipeInputs  == 1    \* additional inputs of a pipeline run, at most
PipeSamples == 1    \* sample tests of a pipeline run, at most
PipeExecs   == 2    \* files * inputs of one stage of a pipeline run, at most
ManyInputs  == 7    \* additional inputs when executions are only counted, at most
GenRequests == 9    \* num_candidates and num_stress are drawn from 0..GenRequests

\* ------------------------------------------------- program constants
\* run_pipeline: the min_agree it passes to build_stress_predicted_tests
PipelineMinAgree == 2

VerifyConcurrency == 30
StressConcurrency == 20
FilterConcurrency == 30
VoteConcurrency   == 30
DebugConcurrency  == 8
\* OpenAIClient(model=model, concurrency=...) of the two generators
CandGenConcurrency   == 10
StressGenConcurrency == 8

\* -------------------------------------------------------------------- text
\* Python's None where a candidate (a positive list position) may stand
None == 0

WS == {" ", "\n", "\t"}

RECURSIVE LStrip(_)
LStrip(s) == IF s # <<>> /\ Head(s) \in WS THEN LStrip(Tail(s)) ELSE s

RECURSIVE RStrip(_)
RStrip(s) == IF s # <<>> /\ s[Len(s)] \in WS
             THEN RStrip(SubSeq(s, 1, Len(s) - 1)) ELSE s

\* str.strip(): leading and trailing whitespace removed
Strip(s) == RStrip(LStrip(s))

T4    == <<"4">>
T4nl  == <<"4", "\n">>
T5    == <<"5">>
T1    == <<"1">>
T2    == <<"2">>
T9    == <<"9">>
Tboom == <<"b", "o", "o", "m", "\n">>
\* one byte that is not valid UTF-8, followed by a newline
TFF   == <<"0xFF", "\n">>
TIMEOUT      == <<"T", "I", "M", "E", "O", "U", "T">>
ERROR_PREFIX == <<"E", "R", "R", "O", "R", ":", " ">>
EXCEPTION    == <<"E", "X", "C", "E", "P", "T", "I", "O", "N", ":", " ">>
ERROR_MARK   == <<"_", "_", "E", "R", "R", "O", "R", "_", "_">>
TIMEOUT_MARK == <<"_", "_", "T", "I", "M", "E", "O", "U", "T", "_", "_">>

\* bytes.decode(): the bytes are valid UTF-8
Decodable(bytes) == \A k \in DOMAIN bytes : bytes[k] # "0xFF"

\* ------------------------------------------------- what a subprocess does
\* kind "exit": the process ends with return code rc before the deadline;
\* kind "timeout": the deadline passes first; kind "exception": the launch
\* (or the pipe I/O) raises.
Exit(rc, out, err) == [kind |-> "exit", rc |-> rc, stdout |-> out, stderr |-> err]
TimesOut           == [kind |-> "timeout", rc |-> -1, stdout |-> <<>>, stderr |-> <<>>]
Raises             == [kind |-> "exception", rc |-> -1, stdout |-> <<>>, stderr |-> <<>>]

\* The subprocess behaviours the stages are explored with.
Behaviours     == {Exit(0, T4nl, <<>>), Exit(0, T5, <<>>), Exit(1, <<>>, Tboom), TimesOut}
VoteBehaviours == {Exit(0, T1, <<>>), Exit(0, T2, <<>>), Exit(0, T9, <<>>),
                   Exit(0, ERROR_MARK, <<>>), Exit(1, <<>>, Tboom)}
MainBehaviours == {Exit(0, T4nl, <<>>), TimesOut}

\* CodeExecutor.run_file, from the end of communicate() to the return:
\* the (success, output) pair for a process that behaved as b.
\* A decode() that raises is caught by "except Exception" (line 51).
run_file(b) ==
    IF b.kind = "timeout" THEN <<FALSE, TIMEOUT>>
    ELSE IF b.kind = "exception" THEN <<FALSE, EXCEPTION>>
    ELSE IF b.rc # 0
    THEN IF Decodable(b.stderr) THEN <<FALSE, ERROR_PREFIX \o Strip(b.stderr)>>
                                ELSE <<FALSE, EXCEPTION>>
    ELSE IF Decodable(b.stdout) THEN <<TRUE, Strip(b.stdout)>>
                                ELSE <<FALSE, EXCEPTION>>

\* ------------------------------------------------------------------- state
VARIABLES
    op,               \* the stage function being executed
    pc,               \* position of the stage coroutine: start, gather, returned
    files,            \* len of the file list of the stage (list order 1..files)
    nInputs,          \* len(additional_inputs) (len(sample_tests) for verify/self_debug)
    task,             \* task[c]: position of the c-th gathered coroutine
    runs,             \* runs[<<c, i>>]: the run_file call of file c on input i
    sem,              \* CodeExecutor._sem: permits available
    waiters,          \* run_file calls blocked in "async with self._sem", FIFO
    results,          \* results[c]: value returned by the c-th gathered coroutine
    results_by_test,  \* build_stress_predicted_tests: idx -> list of outputs
    min_agree,        \* build_stress_predicted_tests: parameter
    stress_predicted, \* the oracle: idx -> predicted output
    ret,              \* value returned by the stage function
    expected,         \* expected[k]: expected output of the k-th sample test
    max_debug_attempts, \* StressTester.max_debug_attempts
    attempt,          \* self_debug: attempt
    current_candidate,\* self_debug: current_candidate (1: the one passed in)
    tested,           \* history: the candidate the runs of this round execute
    rounds,           \* history: rounds of sample tests launched by self_debug
    requests,         \* history: generate_candidate calls made by self_debug
    max_concurrency,  \* CodeExecutor.__init__: the size of self._sem
    rpc,              \* rpc[r]: position of the r-th run coroutine
    proc,             \* proc[r]: the subprocess created by run r
    tmp,              \* tmp[r]: the temporary file written by run r exists
    beh,              \* beh[r]: what the subprocess of run r did
    outcome,          \* outcome[r]: the (success, output) pair run r returned
    exc,              \* exc[r]: the exception that left run r
    cancelled,        \* history: run r was cancelled while suspended
    stage,            \* run_pipeline: the step it is in (none: no pipeline run)
    cand_count,       \* run_pipeline: cand_count
    stress_count,     \* run_pipeline: stress_count
    num_samples,      \* run_pipeline: len(sample_tests)
    num_additional,   \* run_pipeline: len(additional_inputs)
    verified_candidates, \* run_pipeline: verified_candidates
    filtered_candidates, \* run_pipeline: filtered_candidates
    final_pool,       \* run_pipeline: final_pool
    selected,         \* run_pipeline: selected
    launched,         \* run_file calls made by the current stage
    waiting,          \* of these, blocked in "async with self._sem"
    inflight,         \* of these, holding a permit with a process running
    resolved,         \* of these, returned
    gen               \* gen[g]: the generator client g and its requests

execVars == <<task, runs, sem, waiters, results>>
debugVars == <<max_debug_attempts, attempt, current_candidate, tested, rounds, requests>>
runnerVars == <<max_concurrency, rpc, proc, tmp, beh, outcome, exc, cancelled>>
pipeVars == <<stage, cand_count, stress_count, num_samples, num_additional,
              verified_candidates, filtered_candidates, final_pool, selected,
              launched, waiting, inflight, resolved, gen>>
vars == <<op, pc, files, nInputs, task, runs, sem, waiters, results,
          results_by_test, min_agree, stress_predicted, ret, expected,
          max_debug_attempts, attempt, current_candidate, tested, rounds, requests,
          max_concurrency, rpc, proc, tmp, beh, outcome, exc, cancelled,
          stage, cand_count, stress_count, num_samples, num_additional,
          verified_candidates, filtered_candidates, final_pool, selected,
          launched, waiting, inflight, resolved, gen>>

\* an awaitable that has not resolved yet
Pending == -1
EmptyMap == <<>>

Files  == 1..files
Inputs == 1..nInputs

\* runs[<<c, k>>] is the k-th run_file call of run_file_on_tests for file c:
\* inp is the index of the input it was given, n counts the subprocesses
\* created for it, (success, output) is what it returned.
NoRun == [st |-> "none", inp |-> 0, n |-> 0, success |-> FALSE, output |-> <<>>]

\* A function as a Python dict: d with key k set to v.
Put(d, k, v) == [x \in DOMAIN d \cup {k} |-> IF x = k THEN v ELSE d[x]]

\* "async with self._sem": the first waiters take the free permits, in FIFO
\* order, and create their subprocess.
RECURSIVE Admit(_, _, _)
Admit(r, s, w) ==
    IF s > 0 /\ w # <<>>
    THEN Admit([r EXCEPT ![Head(w)].st = "running", ![Head(w)].n = @ + 1],
               s - 1, Tail(w))
    ELSE [runs |-> r, sem |-> s, waiters |-> w]

\* The executor and its run calls
Exec == [runs |-> runs, sem |-> sem, waiters |-> waiters]
SetExec(E) ==
    /\ runs' = E.runs
    /\ sem' = E.sem
    /\ waiters' = E.waiters

\* A set of indices as the list sorted(...) gives
Sorted(S) == CHOOSE q \in [1..Cardinality(S) -> S] :
                 \A a, b \in 1..Cardinality(S) : a < b => q[a] < q[b]

\* run calls of file c are created, position k on input idxs[k], in the
\* order of the positions, each entering "async with self._sem".
Launched(E, c, idxs) ==
    LET pos == Sorted(DOMAIN idxs)
        keys == [j \in DOMAIN pos |-> <<c, pos[j]>>]
        r0 == [key \in DOMAIN E.runs |->
                  IF key[1] = c /\ key[2] \in DOMAIN idxs
                  THEN [E.runs[key] EXCEPT !.st = "waiting", !.inp = idxs[key[2]]]
                  ELSE E.runs[key]]
    IN Admit(r0, E.sem, E.waiters \o keys)

\* A running subprocess has ended and its run coroutine returns res: it
\* leaves the "async with" block and the permit goes to the next waiter.
\* The gather of the calls of file c keeps res at position k, the position
\* of the call, whatever the order in which the calls return.
FinishedAsCompleted(E, c, k, res) ==
    LET open == {j \in 1..k : <<c, j>> \in DOMAIN E.runs /\ E.runs[<<c, j>>].st = "running"}
        j == CHOOSE j \in open : \A i \in open : j <= i
        done == [E.runs[<<c, k>>] EXCEPT !.st = "done", !.success = res[1], !.output = res[2]]
        r1 == [key \in DOMAIN E.runs |->
                  IF key = <<c, j>> THEN done
                  ELSE IF key = <<c, k>> THEN E.runs[<<c, j>>]
                  ELSE E.runs[key]]
    IN Admit(r1, E.sem + 1, E.waiters)
Finished(E, c, k, res) ==
    LET r1 == [E.runs EXCEPT ![<<c, k>>].st = "done",
                             ![<<c, k>>].success = res[1],
                             ![<<c, k>>].output = res[2]]
    IN Admit(r1, E.sem + 1, E.waiters)

Launch(c, idxs) == SetExec(Launched(Exec, c, idxs))

Finish(c, k, res) ==
    /\ runs[<<c, k>>].st = "running"
    /\ SetExec(Finished(Exec, c, k, res))

\* asyncio.gather over the n run_file calls of file c has resolved.
Gathered(c, n) == \A k \in 1..n : runs[<<c, k>>].st = "done"

SeqTo(n) == [k \in 1..n |-> k]

\* The stage's own gather: coroutines are started in list order.
StartsNext(c) ==
    /\ pc = "gather"
    /\ task[c] = "new"
    /\ \A d \in Files : d < c => task[d] # "new"

\* No run of the process runner is followed step by step.
NoRunner ==
    /\ max_concurrency = 0
    /\ rpc = <<>>
    /\ proc = <<>>
    /\ tmp = <<>>
    /\ beh = <<>>
    /\ outcome = <<>>
    /\ exc = <<>>
    /\ cancelled = <<>>

\* No generator client exists.
NoGen == <<>>

\* No pipeline run is in progress: a stage function or a runner is called
\* on its own.
NoPipeline ==
    /\ stage = "none"
    /\ cand_count = 0
    /\ stress_count = 0
    /\ num_samples = 0
    /\ num_additional = 0
    /\ verified_candidates = <<>>
    /\ filtered_candidates = <<>>
    /\ final_pool = <<>>
    /\ selected = Pending
    /\ launched = 0
    /\ waiting = 0
    /\ inflight = 0
    /\ resolved = 0
    /\ gen = NoGen

\* State of a stage function at its call.
Call(name, limit, fs, ins) ==
    /\ NoRunner
    /\ NoPipeline
    /\ op = name
    /\ pc = "start"
    /\ files \in fs
    /\ nInputs \in ins
    /\ files * nInputs <= MaxExecs
    /\ task = [c \in Files |-> "new"]
    /\ runs = [k \in Files \X Inputs |-> NoRun]
    /\ sem = limit
    /\ waiters = <<>>
    /\ results = [c \in Files |-> Pending]
    /\ ret = Pending

\* No self_debug call is in progress.
NoDebug ==
    /\ max_debug_attempts = 0
    /\ attempt = 0
    /\ current_candidate = None
    /\ tested = None
    /\ rounds = 0
    /\ requests = 0

\* A stage that reads no sample test and no oracle.
NoSamples == expected = <<>>
NoOracle ==
    /\ results_by_test = EmptyMap
    /\ min_agree = 0
    /\ stress_predicted = EmptyMap

\* ---------------------------------------------------- oracle builder
\* src/executor.py build_stress_predicted_tests

Count(outputs, v) == Cardinality({k \in DOMAIN outputs : outputs[k] = v})

\* Counter(outputs).most_common(1)[0]: the counter keeps its keys in order
\* of first occurrence and the maximum is the first maximal item.
MostCommon(outputs) ==
    LET k == CHOOSE k \in DOMAIN outputs :
                 /\ \A j \in DOMAIN outputs : Count(outputs, outputs[j]) <= Count(outputs, outputs[k])
                 /\ \A j \in DOMAIN outputs :
                       j < k => Count(outputs, outputs[j]) < Count(outputs, outputs[k])
    IN <<outputs[k], Count(outputs, outputs[k])>>

\* lines 110-117: the predicted outputs from the collected votes
PredictStrict(rbt, m) ==
    LET keep == {idx \in DOMAIN rbt :
                    rbt[idx] # <<>> /\ MostCommon(rbt[idx])[2] > m}
    IN [idx \in keep |-> MostCommon(rbt[idx])[1]]
Predict(rbt, m) ==
    LET keep == {idx \in DOMAIN rbt :
                    rbt[idx] # <<>> /\ MostCommon(rbt[idx])[2] >= m}
    IN [idx \in keep |-> MostCommon(rbt[idx])[1]]

\* lines 103-105: the successful outputs of stress candidate c appended to
\* the lists of their indices (a defaultdict: a missing key starts empty)
VotesOf(rbt, idx) == IF idx \in DOMAIN rbt THEN rbt[idx] ELSE <<>>

AppendVotesUnchecked(rbt, c) ==
    [idx \in DOMAIN rbt \cup Inputs |->
        Append(VotesOf(rbt, idx), runs[<<c, idx>>].output)]
AppendVotes(rbt, c) ==
    LET hit == {idx \in Inputs : runs[<<c, idx>>].success}
    IN [idx \in DOMAIN rbt \cup hit |->
           IF idx \in hit
           THEN Append(VotesOf(rbt, idx), runs[<<c, idx>>].output)
           ELSE rbt[idx]]

\* The values of the parameter min_agree: any, when the function is called
\* on its own; the one run_pipeline passes, in a pipeline run.
MinAgrees == IF stage = "none" THEN (-1)..MaxAgree ELSE {PipelineMinAgree}

InitOracle ==
    /\ Call("build_stress_predicted_tests", StressConcurrency, 0..NumStress, 0..NumInputs)
    /\ NoOracle
    /\ NoSamples
    /\ NoDebug

\* lines 93-107: executor, empty vote table, gather over the stress files
BuildStart ==
    /\ op = "build_stress_predicted_tests"
    /\ pc = "start"
    /\ pc' = "gather"
    /\ UNCHANGED <<debugVars, expected, runnerVars, pipeVars, op, files, nInputs, execVars, results_by_test, min_agree,
                   stress_predicted, ret>>

\* run_stress_candidate up to its await (line 102)
StressTaskStart(c) ==
    /\ op = "build_stress_predicted_tests"
    /\ StartsNext(c)
    /\ task' = [task EXCEPT ![c] = "awaiting"]
    /\ Launch(c, SeqTo(nInputs))
    /\ UNCHANGED <<debugVars, expected, runnerVars, pipeVars, op, pc, files, nInputs, results, results_by_test, min_agree,
                   stress_predicted, ret>>

\* one subprocess of a stress candidate ends
StressRunFinish(c, i) ==
    /\ op = "build_stress_predicted_tests"
    /\ \E b \in Behaviours : Finish(c, i, run_file(b))
    /\ UNCHANGED <<debugVars, expected, runnerVars, pipeVars, op, pc, files, nInputs, task, results, results_by_test,
                   min_agree, stress_predicted, ret>>

\* run_stress_candidate after its await (lines 103-105)
StressTaskCollect(c) ==
    /\ op = "build_stress_predicted_tests"
    /\ task[c] = "awaiting"
    /\ Gathered(c, nInputs)
    /\ results_by_test' = AppendVotes(results_by_test, c)
    /\ task' = [task EXCEPT ![c] = "done"]
    /\ results' = [results EXCEPT ![c] = None]
    /\ UNCHANGED <<debugVars, expected, runnerVars, pipeVars, op, pc, files, nInputs, runs, sem, waiters, min_agree,
                   stress_predicted, ret>>

\* lines 109-120, after the gather of line 107 has resolved.  min_agree is a
\* parameter of the call that the code reads here for the first time.
BuildReturn ==
    /\ op = "build_stress_predicted_tests"
    /\ pc = "gather"
    /\ \A c \in Files : task[c] = "done"
    /\ \E m \in MinAgrees :
          /\ min_agree' = m
          /\ stress_predicted' = Predict(results_by_test, m)
          /\ ret' = Predict(results_by_test, m)
    /\ pc' = "returned"
    /\ UNCHANGED <<debugVars, expected, runnerVars, pipeVars, op, files, nInputs, execVars, results_by_test>>

NextOracle ==
    \/ BuildStart
    \/ \E c \in Files : StressTaskStart(c)
    \/ \E c \in Files, i \in Inputs : StressRunFinish(c, i)
    \/ \E c \in Files : StressTaskCollect(c)
    \/ BuildReturn

SpecOracle == InitOracle /\ [][NextOracle]_vars

\* ---------------------------------------------------- oracle filter
\* src/executor.py filter_by_stress_tests

\* The predictions an oracle can hold: outputs as run_file returns them.
Predictions == {T4, T5}
Oracles(ins) == UNION {[D -> Predictions] : D \in SUBSET ins}

\* line 140: test_indices
all_indices == Sorted(Inputs)
test_indices == Sorted(DOMAIN stress_predicted)

\* lines 130-132: the result when the oracle is empty
SkipFilterRejectsAll(candidate_files) == <<>>
SkipFilter(candidate_files) == candidate_files

\* lines 145-149: the verdict of check_candidate on the gathered results,
\* the k-th result paired with the k-th test index
PassesFirstOnly(c) ==
    \A k \in DOMAIN test_indices :
        k = 1 => /\ runs[<<c, k>>].success
                 /\ Strip(runs[<<c, k>>].output) = Strip(stress_predicted[test_indices[k]])
Passes(c) ==
    \A k \in DOMAIN test_indices :
        /\ runs[<<c, k>>].success
        /\ Strip(runs[<<c, k>>].output) = Strip(stress_predicted[test_indices[k]])

\* [r for r in results if r is not None]
NotNone(r) == r # None

InitFilter ==
    /\ Call("filter_by_stress_tests", FilterConcurrency, 0..NumCands, 0..NumInputs)
    /\ stress_predicted \in Oracles(Inputs)
    /\ results_by_test = EmptyMap
    /\ min_agree = 0
    /\ NoSamples
    /\ NoDebug

\* lines 130-136 and the gather of line 151
FilterStart ==
    /\ op = "filter_by_stress_tests"
    /\ pc = "start"
    /\ IF DOMAIN stress_predicted = {}
       THEN pc' = "returned" /\ ret' = SkipFilter(SeqTo(files))
       ELSE pc' = "gather" /\ ret' = ret
    /\ UNCHANGED <<debugVars, expected, runnerVars, pipeVars, op, files, nInputs, execVars, results_by_test, min_agree,
                   stress_predicted>>

\* check_candidate up to its await (lines 140-143)
FilterTaskStart(c) ==
    /\ op = "filter_by_stress_tests"
    /\ StartsNext(c)
    /\ task' = [task EXCEPT ![c] = "awaiting"]
    /\ Launch(c, test_indices)
    /\ UNCHANGED <<debugVars, expected, runnerVars, pipeVars, op, pc, files, nInputs, results, results_by_test, min_agree,
                   stress_predicted, ret>>

\* one subprocess of a candidate ends
FilterRunFinish(c, k) ==
    /\ op = "filter_by_stress_tests"
    /\ \E b \in Behaviours : Finish(c, k, run_file(b))
    /\ UNCHANGED <<debugVars, expected, runnerVars, pipeVars, op, pc, files, nInputs, task, results, results_by_test,
                   min_agree, stress_predicted, ret>>

\* check_candidate after its await (lines 145-149)
FilterTaskCheck(c) ==
    /\ op = "filter_by_stress_tests"
    /\ task[c] = "awaiting"
    /\ Gathered(c, Len(test_indices))
    /\ task' = [task EXCEPT ![c] = "done"]
    /\ results' = [results EXCEPT ![c] = IF Passes(c) THEN c ELSE None]
    /\ UNCHANGED <<debugVars, expected, runnerVars, pipeVars, op, pc, files, nInputs, runs, sem, waiters, results_by_test,
                   min_agree, stress_predicted, ret>>

\* lines 152-155, after the gather of line 151 has resolved
FilterReturn ==
    /\ op = "filter_by_stress_tests"
    /\ pc = "gather"
    /\ \A c \in Files : task[c] = "done"
    /\ ret' = SelectSeq(results, NotNone)
    /\ pc' = "returned"
    /\ UNCHANGED <<debugVars, expected, runnerVars, pipeVars, op, files, nInputs, execVars, results_by_test, min_agree,
                   stress_predicted>>

NextFilter ==
    \/ FilterStart
    \/ \E c \in Files : FilterTaskStart(c)
    \/ \E c \in Files, k \in Inputs : FilterRunFinish(c, k)
    \/ \E c \in Files : FilterTaskCheck(c)
    \/ FilterReturn

SpecFilter == InitFilter /\ [][NextFilter]_vars

\* ---------------------------------------------------- consensus selector
\* src/executor.py majority_vote

\* lines 165-166: the guard of the early return
NoCandidatesOrInputs == files = 0 \/ nInputs = 0
NoCandidates == files = 0

\* line 175: the output signature of candidate c from its gathered results
Signature(c) ==
    [k \in Inputs |-> IF runs[<<c, k>>].success THEN runs[<<c, k>>].output
                                                ELSE ERROR_MARK]

\* lines 181-183: clusters[outputs] as a list of candidates in the order of
\* rows; the dict keeps its keys in the order of their first row
Cluster(rows, key) ==
    LET hit(row) == row[2] = key
        sel == SelectSeq(rows, hit)
    IN [k \in DOMAIN sel |-> sel[k][1]]

\* lines 186-187: max(clusters.values(), key=len) is the first cluster of
\* maximal length in key order, and its first member is selected
SelectedLastMax(rows) ==
    LET size(r) == Len(Cluster(rows, rows[r][2]))
        first == {r \in DOMAIN rows : \A q \in DOMAIN rows : q < r => rows[q][2] # rows[r][2]}
        best == CHOOSE r \in first :
                    /\ \A q \in first : size(q) <= size(r)
                    /\ \A q \in first : q > r => size(q) < size(r)
    IN Cluster(rows, rows[best][2])[1]
Selected(rows) ==
    LET size(r) == Len(Cluster(rows, rows[r][2]))
        first == {r \in DOMAIN rows : \A q \in DOMAIN rows : q < r => rows[q][2] # rows[r][2]}
        best == CHOOSE r \in first :
                    /\ \A q \in first : size(q) <= size(r)
                    /\ \A q \in first : q < r => size(q) < size(r)
    IN Cluster(rows, rows[best][2])[1]

InitVote ==
    /\ Call("majority_vote", VoteConcurrency, 0..NumCands, 0..NumInputs)
    /\ NoOracle
    /\ NoSamples
    /\ NoDebug

\* lines 165-170 and the gather of line 178
VoteStart ==
    /\ op = "majority_vote"
    /\ pc = "start"
    /\ IF NoCandidates
       THEN pc' = "returned" /\ ret' = None
       ELSE pc' = "gather" /\ ret' = ret
    /\ UNCHANGED <<debugVars, expected, runnerVars, pipeVars, op, files, nInputs, execVars, results_by_test, min_agree,
                   stress_predicted>>

\* get_outputs up to its await (line 174)
VoteTaskStart(c) ==
    /\ op = "majority_vote"
    /\ StartsNext(c)
    /\ task' = [task EXCEPT ![c] = "awaiting"]
    /\ Launch(c, SeqTo(nInputs))
    /\ UNCHANGED <<debugVars, expected, runnerVars, pipeVars, op, pc, files, nInputs, results, results_by_test, min_agree,
                   stress_predicted, ret>>

\* one subprocess of a candidate ends
VoteRunFinish(c, k) ==
    /\ op = "majority_vote"
    /\ \E b \in VoteBehaviours : Finish(c, k, run_file(b))
    /\ UNCHANGED <<debugVars, expected, runnerVars, pipeVars, op, pc, files, nInputs, task, results, results_by_test,
                   min_agree, stress_predicted, ret>>

\* get_outputs after its await (lines 175-176)
VoteTaskCollect(c) ==
    /\ op = "majority_vote"
    /\ task[c] = "awaiting"
    /\ Gathered(c, nInputs)
    /\ task' = [task EXCEPT ![c] = "done"]
    /\ results' = [results EXCEPT ![c] = <<c, Signature(c)>>]
    /\ UNCHANGED <<debugVars, expected, runnerVars, pipeVars, op, pc, files, nInputs, runs, sem, waiters, results_by_test,
                   min_agree, stress_predicted, ret>>

\* lines 180-192, after the gather of line 178 has resolved
VoteReturn ==
    /\ op = "majority_vote"
    /\ pc = "gather"
    /\ \A c \in Files : task[c] = "done"
    /\ ret' = Selected(results)
    /\ pc' = "returned"
    /\ UNCHANGED <<debugVars, expected, runnerVars, pipeVars, op, files, nInputs, execVars, results_by_test, min_agree,
                   stress_predicted>>

NextVote ==
    \/ VoteStart
    \/ \E c \in Files : VoteTaskStart(c)
    \/ \E c \in Files, k \in Inputs : VoteRunFinish(c, k)
    \/ \E c \in Files : VoteTaskCollect(c)
    \/ VoteReturn

SpecVote == InitVote /\ [][NextVote]_vars

\* ---------------------------------------------------- sample verification
\* src/executor.py verify_sample_tests

\* The expected outputs a sample test can state.
Expecteds == {T4nl, T5}

\* line 75: the k-th sample test is passed by the returned pair res
SampleOk(k, res) == res[1] /\ Strip(res[2]) = Strip(expected[k])

InitVerify ==
    /\ Call("verify_sample_tests", VerifyConcurrency, 0..NumCands, 0..NumSamples)
    /\ expected \in [Inputs -> Expecteds]
    /\ NoOracle
    /\ NoDebug

\* lines 67-70 and the gather of line 79
VerifyStart ==
    /\ op = "verify_sample_tests"
    /\ pc = "start"
    /\ pc' = "gather"
    /\ UNCHANGED <<debugVars, expected, runnerVars, pipeVars, op, files, nInputs, execVars, results_by_test,
                   min_agree, stress_predicted, ret>>

\* check_candidate up to its first await (lines 73-74), or to its return
\* when there is no sample test (line 77)
VerifyTaskStart(c) ==
    /\ op = "verify_sample_tests"
    /\ StartsNext(c)
    /\ IF nInputs = 0
       THEN /\ task' = [task EXCEPT ![c] = "done"]
            /\ results' = [results EXCEPT ![c] = c]
            /\ UNCHANGED <<runs, sem, waiters>>
       ELSE /\ task' = [task EXCEPT ![c] = "awaiting"]
            /\ results' = results
            /\ Launch(c, 1 :> 1)
    /\ UNCHANGED <<debugVars, expected, runnerVars, pipeVars, op, pc, files, nInputs, results_by_test,
                   min_agree, stress_predicted, ret>>

\* the subprocess of the k-th sample test ends: run_file returns into
\* check_candidate, which runs to its next await or to its return
\* (lines 74-77)
VerifyRunFinish(c, k) ==
    /\ op = "verify_sample_tests"
    /\ runs[<<c, k>>].st = "running"
    /\ \E b \in Behaviours :
          LET res == run_file(b)
              E1 == Finished(Exec, c, k, res)
          IN IF ~SampleOk(k, res)
             THEN /\ SetExec(E1)
                  /\ task' = [task EXCEPT ![c] = "done"]
                  /\ results' = [results EXCEPT ![c] = None]
             ELSE IF k = nInputs
             THEN /\ SetExec(E1)
                  /\ task' = [task EXCEPT ![c] = "done"]
                  /\ results' = [results EXCEPT ![c] = c]
             ELSE /\ SetExec(Launched(E1, c, (k + 1) :> (k + 1)))
                  /\ UNCHANGED <<task, results>>
    /\ UNCHANGED <<debugVars, expected, runnerVars, pipeVars, op, pc, files, nInputs, results_by_test,
                   min_agree, stress_predicted, ret>>

\* lines 80-83, after the gather of line 79 has resolved
VerifyReturn ==
    /\ op = "verify_sample_tests"
    /\ pc = "gather"
    /\ \A c \in Files : task[c] = "done"
    /\ ret' = SelectSeq(results, NotNone)
    /\ pc' = "returned"
    /\ UNCHANGED <<debugVars, expected, runnerVars, pipeVars, op, files, nInputs, execVars, results_by_test,
                   min_agree, stress_predicted>>

NextVerify ==
    \/ VerifyStart
    \/ \E c \in Files : VerifyTaskStart(c)
    \/ \E c \in Files, k \in Inputs : VerifyRunFinish(c, k)
    \/ VerifyReturn

SpecVerify == InitVerify /\ [][NextVerify]_vars

\* ---------------------------------------------------- self-debug loop
\* src/async_stress_test.py CodeExecutor.run, StressTester.self_debug

\* CodeExecutor.run, from the end of communicate() to the return (lines
\* 79-92), for a process that was launched and behaved as b.
run(b) ==
    IF b.kind = "timeout" THEN <<FALSE, TIMEOUT_MARK>>
    ELSE IF b.rc # 0
    THEN <<FALSE, IF Strip(b.stderr) = <<>> THEN ERROR_MARK ELSE Strip(b.stderr)>>
    ELSE <<TRUE, Strip(b.stdout)>>

\* line 109: the loop condition
LoopContinuesBelow(a, m) == a < m
LoopContinues(a, m) == a <= m

\* lines 114-118: all_ok over the gathered results, the k-th result paired
\* with the k-th sample test
AllOkLastOnly ==
    \A k \in Inputs :
        k = nInputs => SampleOk(k, <<runs[<<1, k>>].success, runs[<<1, k>>].output>>)
AllOk ==
    \A k \in Inputs : SampleOk(k, <<runs[<<1, k>>].success, runs[<<1, k>>].output>>)

\* lines 111-112: the runs of one round, created from current candidate cand
RoundOfFirst(cand) ==
    /\ SetExec(Launched([Exec EXCEPT !.runs = [key \in DOMAIN runs |-> NoRun]],
                        1, SeqTo(nInputs)))
    /\ tested' = 1
    /\ rounds' = rounds + 1
Round(cand) ==
    /\ SetExec(Launched([Exec EXCEPT !.runs = [key \in DOMAIN runs |-> NoRun]],
                        1, SeqTo(nInputs)))
    /\ tested' = cand
    /\ rounds' = rounds + 1

InitDebug ==
    /\ Call("self_debug", DebugConcurrency, {1}, 0..NumSamples)
    /\ expected \in [Inputs -> Expecteds]
    /\ NoOracle
    /\ max_debug_attempts \in 0..MaxAttempts
    /\ attempt = 0
    /\ current_candidate = 1
    /\ tested = None
    /\ rounds = 0
    /\ requests = 0

\* lines 107-112: the first pass through the loop head
DebugBegin ==
    /\ op = "self_debug"
    /\ pc = "start"
    /\ IF LoopContinues(attempt, max_debug_attempts)
       THEN /\ Round(current_candidate)
            /\ pc' = "Testing"
            /\ ret' = ret
       ELSE /\ pc' = "Exhausted"
            /\ ret' = None
            /\ UNCHANGED <<runs, sem, waiters, tested, rounds>>
    /\ UNCHANGED <<expected, runnerVars, pipeVars, op, files, nInputs, task, results, results_by_test,
                   min_agree, stress_predicted, max_debug_attempts, attempt,
                   current_candidate, requests>>

\* one subprocess of the round ends
DebugRunFinish(k) ==
    /\ op = "self_debug"
    /\ pc = "Testing"
    /\ \E b \in Behaviours : Finish(1, k, run(b))
    /\ UNCHANGED <<debugVars, expected, runnerVars, pipeVars, op, pc, files, nInputs, task, results,
                   results_by_test, min_agree, stress_predicted, ret>>

\* lines 114-125, after the gather of line 112 has resolved: return the
\* candidate, or count the attempt and ask the generator for another
DebugEvaluate ==
    /\ op = "self_debug"
    /\ pc = "Testing"
    /\ Gathered(1, nInputs)
    /\ IF AllOk
       THEN /\ ret' = current_candidate
            /\ pc' = "Passed"
            /\ UNCHANGED <<attempt, requests>>
       ELSE /\ attempt' = attempt + 1
            /\ requests' = requests + 1
            /\ pc' = "Revising"
            /\ ret' = ret
    /\ UNCHANGED <<expected, runnerVars, pipeVars, op, files, nInputs, execVars, results_by_test,
                   min_agree, stress_predicted, max_debug_attempts,
                   current_candidate, tested, rounds>>

\* line 125 resolves with a new candidate, then the loop head (line 109):
\* another round (lines 111-112) or return None (line 127)
DebugGenerated ==
    /\ op = "self_debug"
    /\ pc = "Revising"
    /\ current_candidate' = requests + 1
    /\ IF LoopContinues(attempt, max_debug_attempts)
       THEN /\ Round(requests + 1)
            /\ pc' = "Testing"
            /\ ret' = ret
       ELSE /\ pc' = "Exhausted"
            /\ ret' = None
            /\ UNCHANGED <<runs, sem, waiters, tested, rounds>>
    /\ UNCHANGED <<expected, runnerVars, pipeVars, op, files, nInputs, task, results, results_by_test,
                   min_agree, stress_predicted, max_debug_attempts, attempt,
                   requests>>

NextDebug ==
    \/ DebugBegin
    \/ \E k \in Inputs : DebugRunFinish(k)
    \/ DebugEvaluate
    \/ DebugGenerated

SpecDebug == InitDebug /\ [][NextDebug]_vars

\* the stage functions that pair gathered results with an index (majority
\* vote, filter, self-debug), each from its own call
InitGathers == InitVote \/ InitFilter \/ InitDebug

NextGathers ==
    \/ NextVote
    \/ NextFilter
    \/ NextDebug

SpecGathers == InitGathers /\ [][NextGathers]_vars

\* sample verification and the self-debug loop, each from its own call
InitSamples == InitVerify \/ InitDebug

NextSamples ==
    \/ NextVerify
    \/ NextDebug

SpecSamples == InitSamples /\ [][NextSamples]_vars

\* ---------------------------------------------------- process runner
\* src/executor.py CodeExecutor.run_file (op = "run_file") and
\* src/async_stress_test.py CodeExecutor.run (op = "run"): the calls made on
\* one executor, each followed from one suspension point to the next.
\* rpc[r] is start, waiting (in "async with self._sem"), launching (in
\* create_subprocess_exec), communicating (in wait_for), reaping (in
\* proc.wait() or proc.communicate() after proc.kill()), returned or raised.
\* proc[r] is none, alive, exited (ended by itself and was collected),
\* killed (SIGKILL sent, not yet collected) or reaped.

Runs == DOMAIN rpc

NoBehaviour == [kind |-> "none", rc |-> 0, stdout |-> <<>>, stderr |-> <<>>]

\* the deadline passes; out is what the process had written by then
Hangs(out) == [kind |-> "timeout", rc |-> -1, stdout |-> out, stderr |-> <<>>]

\* What a launched process can do before the deadline, and at it.
ExitBehaviours == {Exit(0, T4nl, <<>>), Exit(0, T5, Tboom), Exit(0, TFF, <<>>),
                   Exit(1, <<>>, Tboom), Exit(1, T4, <<>>),
                   Exit(1, <<>>, TIMEOUT_MARK \o <<"\n">>)}
HangBehaviours == {Hangs(<<>>), Hangs(T4)}

\* CodeExecutor.run lines 89-92: the decode() that the return evaluates raises
run_raises(b) ==
    /\ b.kind = "exit"
    /\ IF b.rc # 0 THEN ~Decodable(b.stderr) ELSE ~Decodable(b.stdout)

\* os.remove(path): whether the file exists afterwards
os_remove_noop(exists) == exists
os_remove(exists) == FALSE

stageVars == <<op, pc, files, nInputs, task, runs, results, results_by_test,
               min_agree, stress_predicted, ret, expected>>

InitRunner ==
    /\ op \in {"run_file", "run"}
    /\ pc = "gather"
    /\ files = 1
    /\ nInputs \in 1..NumRuns
    /\ max_concurrency \in 1..MaxConcurrency
    /\ sem = max_concurrency
    /\ waiters = <<>>
    /\ rpc = [r \in Inputs |-> "start"]
    /\ proc = [r \in Inputs |-> "none"]
    /\ tmp = [r \in Inputs |-> FALSE]
    /\ beh = [r \in Inputs |-> NoBehaviour]
    /\ outcome = [r \in Inputs |-> Pending]
    /\ exc = [r \in Inputs |-> "none"]
    /\ cancelled = [r \in Inputs |-> FALSE]
    /\ task = <<>>
    /\ runs = <<>>
    /\ results = <<>>
    /\ ret = Pending
    /\ NoOracle
    /\ NoSamples
    /\ NoDebug
    /\ NoPipeline

\* The permit is taken; run writes the candidate's code to a temporary file
\* (lines 67-69); the subprocess is being created (run_file 26, run 71).
Enter(r, w) ==
    /\ sem' = sem - 1
    /\ waiters' = w
    /\ rpc' = [rpc EXCEPT ![r] = "launching"]
    /\ tmp' = [tmp EXCEPT ![r] = (op = "run")]

\* The coroutine leaves "async with self._sem" by a return or by an
\* exception: the permit is released on both.
Return(r, res) ==
    /\ rpc' = [rpc EXCEPT ![r] = "returned"]
    /\ outcome' = [outcome EXCEPT ![r] = res]
    /\ exc' = exc
    /\ sem' = sem + 1

RaiseKeepsPermit(r, e) ==
    /\ rpc' = [rpc EXCEPT ![r] = "raised"]
    /\ exc' = [exc EXCEPT ![r] = e]
    /\ outcome' = outcome
    /\ sem' = sem

Raise(r, e) ==
    /\ rpc' = [rpc EXCEPT ![r] = "raised"]
    /\ exc' = [exc EXCEPT ![r] = e]
    /\ outcome' = outcome
    /\ sem' = sem + 1

\* The r-th call is started (calls are started in the order they were made)
\* and reaches "async with self._sem".
RunCalled(r) ==
    /\ op \in {"run_file", "run"}
    /\ rpc[r] = "start"
    /\ \A q \in Runs : q < r => rpc[q] # "start"
    /\ IF sem > 0 /\ waiters = <<>>
       THEN Enter(r, waiters)
       ELSE /\ waiters' = Append(waiters, r)
            /\ rpc' = [rpc EXCEPT ![r] = "waiting"]
            /\ UNCHANGED <<sem, tmp>>
    /\ UNCHANGED <<stageVars, debugVars, pipeVars, max_concurrency, proc, beh, outcome, exc, cancelled>>

\* A permit is free and r is the first waiter.
RunAdmitted(r) ==
    /\ op \in {"run_file", "run"}
    /\ rpc[r] = "waiting"
    /\ sem > 0
    /\ waiters # <<>> /\ Head(waiters) = r
    /\ Enter(r, Tail(waiters))
    /\ UNCHANGED <<stageVars, debugVars, pipeVars, max_concurrency, proc, beh, outcome, exc, cancelled>>

\* create_subprocess_exec resolves: with a process, or with an error of the
\* launch (python3 is not on the PATH).  run_file catches it (lines 51-52);
\* in run the call is outside the try (lines 71-77).
RunLaunched(r) ==
    /\ op \in {"run_file", "run"}
    /\ rpc[r] = "launching"
    /\ \/ /\ proc' = [proc EXCEPT ![r] = "alive"]
          /\ rpc' = [rpc EXCEPT ![r] = "communicating"]
          /\ UNCHANGED <<sem, outcome, exc>>
       \/ /\ proc' = proc
          /\ IF op = "run_file" THEN Return(r, run_file(Raises))
                                ELSE Raise(r, "FileNotFoundError")
    /\ UNCHANGED <<stageVars, debugVars, pipeVars, max_concurrency, waiters, tmp, beh, cancelled>>

\* The process ends before the deadline and communicate() resolves: run_file
\* lines 39-42 (and 51-52); run lines 87-92.
ProcessExits(r) ==
    /\ op \in {"run_file", "run"}
    /\ rpc[r] = "communicating"
    /\ \E b \in ExitBehaviours :
          /\ beh' = [beh EXCEPT ![r] = b]
          /\ IF op = "run_file"
             THEN /\ Return(r, run_file(b))
                  /\ tmp' = tmp
             ELSE /\ tmp' = [tmp EXCEPT ![r] = os_remove(tmp[r])]
                  /\ IF run_raises(b) THEN Raise(r, "UnicodeDecodeError")
                                      ELSE Return(r, run(b))
    /\ proc' = [proc EXCEPT ![r] = "exited"]
    /\ UNCHANGED <<stageVars, debugVars, pipeVars, max_concurrency, waiters, cancelled>>

\* The deadline passes and wait_for raises TimeoutError: proc.kill(), then
\* the wait for the process (run_file lines 44-47, run lines 81-83).  When
\* the process has ended while wait_for was cancelling communicate(), kill()
\* raises ProcessLookupError: run_file swallows it (lines 48-50), run does
\* not.
DeadlinePasses(r) ==
    /\ op \in {"run_file", "run"}
    /\ rpc[r] = "communicating"
    /\ \E b \in HangBehaviours, gone \in BOOLEAN :
          /\ beh' = [beh EXCEPT ![r] = b]
          /\ IF gone
             THEN /\ proc' = [proc EXCEPT ![r] = "exited"]
                  /\ IF op = "run_file" THEN Return(r, run_file(b))
                                        ELSE Raise(r, "ProcessLookupError")
             ELSE /\ proc' = [proc EXCEPT ![r] = "killed"]
                  /\ rpc' = [rpc EXCEPT ![r] = "reaping"]
                  /\ UNCHANGED <<sem, outcome, exc>>
    /\ UNCHANGED <<stageVars, debugVars, pipeVars, max_concurrency, waiters, tmp, cancelled>>

\* The killed process has been collected: run_file line 50, run lines 84-85.
ProcessReaped(r) ==
    /\ op \in {"run_file", "run"}
    /\ rpc[r] = "reaping"
    /\ proc' = [proc EXCEPT ![r] = "reaped"]
    /\ IF op = "run_file"
       THEN /\ Return(r, run_file(beh[r]))
            /\ tmp' = tmp
       ELSE /\ tmp' = [tmp EXCEPT ![r] = os_remove(tmp[r])]
            /\ Return(r, run(beh[r]))
    /\ UNCHANGED <<stageVars, debugVars, pipeVars, max_concurrency, waiters, beh, cancelled>>

\* The task of run r is cancelled while it is suspended: CancelledError is
\* raised at its await.  No handler of run catches it; in run_file only the
\* bare "except:" around kill() and wait() does (lines 45-49), and line 50
\* then returns.  A cancelled create_subprocess_exec disposes of the process
\* it was creating.
RunCancelled(r) ==
    /\ op \in {"run_file", "run"}
    /\ rpc[r] \in {"waiting", "launching", "communicating", "reaping"}
    /\ cancelled' = [cancelled EXCEPT ![r] = TRUE]
    /\ IF rpc[r] = "waiting"
       THEN /\ waiters' = SelectSeq(waiters, LAMBDA q : q # r)
            /\ rpc' = [rpc EXCEPT ![r] = "raised"]
            /\ exc' = [exc EXCEPT ![r] = "CancelledError"]
            /\ UNCHANGED <<sem, outcome>>
       ELSE /\ waiters' = waiters
            /\ IF rpc[r] = "reaping" /\ op = "run_file"
               THEN Return(r, run_file(beh[r]))
               ELSE Raise(r, "CancelledError")
    /\ UNCHANGED <<stageVars, debugVars, pipeVars, max_concurrency, proc, tmp, beh>>

NextRunner ==
    \/ \E r \in Runs : RunCalled(r)
    \/ \E r \in Runs : RunAdmitted(r)
    \/ \E r \in Runs : RunLaunched(r)
    \/ \E r \in Runs : ProcessExits(r)
    \/ \E r \in Runs : DeadlinePasses(r)
    \/ \E r \in Runs : ProcessReaped(r)
    \/ \E r \in Runs : RunCancelled(r)

SpecRunner == InitRunner /\ [][NextRunner]_vars

\* ---------------------------------------------------- oracle builder of StressTester
\* src/async_stress_test.py StressTester.build_stress_predicted_subset, on
\* the executor of main (CodeExecutor.run)

\* What a subprocess of a stress candidate can do, a failed launch included.
SubsetBehaviours == Behaviours \cup {Exit(0, TFF, <<>>), Raises}

\* CodeExecutor.run leaves by an exception: create_subprocess_exec failed
\* (line 71, outside the try) or decode() did (lines 90-92)
run_fails(b) == b.kind = "exception" \/ run_raises(b)

InitSubset ==
    /\ Call("build_stress_predicted_subset", DebugConcurrency, 0..NumStress, 0..NumInputs)
    /\ NoOracle
    /\ NoSamples
    /\ NoDebug

\* lines 134 and 143: empty vote table, gather over the stress candidates
SubsetStart ==
    /\ op = "build_stress_predicted_subset"
    /\ pc = "start"
    /\ pc' = "gather"
    /\ UNCHANGED <<debugVars, expected, runnerVars, pipeVars, op, files, nInputs, execVars,
                   results_by_test, min_agree, stress_predicted, ret>>

\* run_one up to its await (lines 137-138)
SubsetTaskStart(c) ==
    /\ op = "build_stress_predicted_subset"
    /\ StartsNext(c)
    /\ task' = [task EXCEPT ![c] = "awaiting"]
    /\ Launch(c, SeqTo(nInputs))
    /\ UNCHANGED <<debugVars, expected, runnerVars, pipeVars, op, pc, files, nInputs, results,
                   results_by_test, min_agree, stress_predicted, ret>>

\* one run of a stress candidate returns
SubsetRunFinish(c, i) ==
    /\ op = "build_stress_predicted_subset"
    /\ \E b \in SubsetBehaviours :
          /\ ~run_fails(b)
          /\ Finish(c, i, run(b))
    /\ UNCHANGED <<debugVars, expected, runnerVars, pipeVars, op, pc, files, nInputs, task, results,
                   results_by_test, min_agree, stress_predicted, ret>>

\* one run of a stress candidate raises: the gather of line 138 raises in
\* run_one, the gather of line 143 raises in build_stress_predicted_subset,
\* and nothing catches the exception
SubsetRunRaises(c, i) ==
    /\ op = "build_stress_predicted_subset"
    /\ \E b \in SubsetBehaviours :
          /\ run_fails(b)
          /\ Finish(c, i, <<FALSE, <<>>>>)
    /\ task' = [task EXCEPT ![c] = "raised"]
    /\ pc' = IF pc = "gather" THEN "raised" ELSE pc
    /\ UNCHANGED <<debugVars, expected, runnerVars, pipeVars, op, files, nInputs, results,
                   results_by_test, min_agree, stress_predicted, ret>>

\* run_one after its await (lines 139-141)
SubsetTaskCollect(c) ==
    /\ op = "build_stress_predicted_subset"
    /\ task[c] = "awaiting"
    /\ Gathered(c, nInputs)
    /\ results_by_test' = AppendVotes(results_by_test, c)
    /\ task' = [task EXCEPT ![c] = "done"]
    /\ results' = [results EXCEPT ![c] = None]
    /\ UNCHANGED <<debugVars, expected, runnerVars, pipeVars, op, pc, files, nInputs, runs, sem,
                   waiters, min_agree, stress_predicted, ret>>

\* lines 145-155, after the gather of line 143 has resolved
SubsetReturn ==
    /\ op = "build_stress_predicted_subset"
    /\ pc = "gather"
    /\ \A c \in Files : task[c] = "done"
    /\ \E m \in MinAgrees :
          /\ min_agree' = m
          /\ stress_predicted' = Predict(results_by_test, m)
          /\ ret' = Predict(results_by_test, m)
    /\ pc' = "returned"
    /\ UNCHANGED <<debugVars, expected, runnerVars, pipeVars, op, files, nInputs, execVars,
                   results_by_test>>

NextSubset ==
    \/ SubsetStart
    \/ \E c \in Files : SubsetTaskStart(c)
    \/ \E c \in Files, i \in Inputs : SubsetRunFinish(c, i)
    \/ \E c \in Files, i \in Inputs : SubsetRunRaises(c, i)
    \/ \E c \in Files : SubsetTaskCollect(c)
    \/ SubsetReturn

\* the two oracle builders, each from its own call
InitBuilders == InitOracle \/ InitSubset

NextBuilders ==
    \/ NextOracle
    \/ NextSubset

SpecBuilders == InitBuilders /\ [][NextBuilders]_vars

\* ---------------------------------------------------- pipeline coordinator
\* src/run.py run_pipeline, with the stage functions of src/executor.py.
\* The candidate directory holds the cand_count files generated in this run;
\* a candidate is its position in the sorted directory listing.

\* line 83 and line 91: the guards of the two early returns
NoneGenerated(n) == n = 0
NoneVerifiedOrOne(v) == Len(v) <= 1
NoneVerified(v) == v = <<>>

\* line 104: the pool handed to majority_vote
FinalPoolNoFallback(filtered, verified) == filtered
FinalPoolIgnoresFilter(filtered, verified) == verified
FinalPool(filtered, verified) == IF filtered # <<>> THEN filtered ELSE verified

\* A stage function is called with f files and n inputs: it creates its own
\* executor with its own limit.
CallStage(name, limit, f, n) ==
    /\ op' = name
    /\ pc' = "start"
    /\ files' = f
    /\ nInputs' = n
    /\ task' = [c \in 1..f |-> "new"]
    /\ runs' = [k \in (1..f) \X (1..n) |-> NoRun]
    /\ sem' = limit
    /\ waiters' = <<>>
    /\ results' = [c \in 1..f |-> Pending]
    /\ ret' = Pending

\* run_pipeline returns: no stage function is running any more
PipelineReturns(value) ==
    /\ stage' = "done"
    /\ selected' = value
    /\ UNCHANGED <<op, pc, files, nInputs, execVars, ret>>

countVars == <<launched, waiting, inflight, resolved>>

InitPipeline ==
    /\ stage = "generate"
    /\ op = "run_pipeline"
    /\ pc = "start"
    /\ num_samples \in 0..PipeSamples
    /\ num_additional \in 0..PipeInputs
    /\ expected \in [1..num_samples -> Expecteds]
    /\ cand_count = 0
    /\ stress_count = 0
    /\ verified_candidates = <<>>
    /\ filtered_candidates = <<>>
    /\ final_pool = <<>>
    /\ selected = Pending
    /\ launched = 0 /\ waiting = 0 /\ inflight = 0 /\ resolved = 0
    /\ gen = NoGen
    /\ files = 0
    /\ nInputs = 0
    /\ task = <<>>
    /\ runs = <<>>
    /\ sem = 0
    /\ waiters = <<>>
    /\ results = <<>>
    /\ ret = Pending
    /\ NoOracle
    /\ NoDebug
    /\ NoRunner

\* lines 74-89: the two generators have returned their counts
PipelineGenerated ==
    /\ stage = "generate"
    /\ op = "run_pipeline"
    /\ \E cc \in 0..PipeCands, sc \in 0..PipeStress :
          /\ cc * num_samples <= PipeExecs
          /\ cc * num_additional <= PipeExecs
          /\ sc * num_additional <= PipeExecs
          /\ cand_count' = cc
          /\ stress_count' = sc
          /\ IF NoneGenerated(cc)
             THEN PipelineReturns(None)
             ELSE /\ stage' = "verify"
                  /\ selected' = selected
                  /\ CallStage("verify_sample_tests", VerifyConcurrency, cc, num_samples)
    /\ UNCHANGED <<debugVars, runnerVars, countVars, gen, expected, results_by_test, min_agree,
                   stress_predicted, num_samples, num_additional,
                   verified_candidates, filtered_candidates, final_pool>>

\* lines 89-97: verify_sample_tests has returned
PipelineVerified ==
    /\ stage = "verify"
    /\ op = "verify_sample_tests"
    /\ pc = "returned"
    /\ verified_candidates' = ret
    /\ IF NoneVerified(ret)
       THEN PipelineReturns(None)
       ELSE /\ stage' = "build"
            /\ selected' = selected
            /\ CallStage("build_stress_predicted_tests", StressConcurrency,
                         stress_count, num_additional)
    /\ UNCHANGED <<debugVars, runnerVars, countVars, gen, expected, results_by_test, min_agree,
                   stress_predicted, cand_count, stress_count, num_samples,
                   num_additional, filtered_candidates, final_pool>>

\* lines 97-101: build_stress_predicted_tests has returned the oracle
PipelineBuilt ==
    /\ stage = "build"
    /\ op = "build_stress_predicted_tests"
    /\ pc = "returned"
    /\ stage' = "filter"
    /\ CallStage("filter_by_stress_tests", FilterConcurrency,
                 Len(verified_candidates), num_additional)
    /\ UNCHANGED <<debugVars, runnerVars, countVars, gen, expected, results_by_test, min_agree,
                   stress_predicted, cand_count, stress_count, num_samples,
                   num_additional, verified_candidates, filtered_candidates,
                   final_pool, selected>>

\* lines 101-108: filter_by_stress_tests has returned; the pool is chosen
PipelineFiltered ==
    /\ stage = "filter"
    /\ op = "filter_by_stress_tests"
    /\ pc = "returned"
    /\ LET filtered == [k \in DOMAIN ret |-> verified_candidates[ret[k]]]
           pool == FinalPool(filtered, verified_candidates)
       IN /\ filtered_candidates' = filtered
          /\ final_pool' = pool
          /\ CallStage("majority_vote", VoteConcurrency, Len(pool), num_additional)
    /\ stage' = "vote"
    /\ UNCHANGED <<debugVars, runnerVars, countVars, gen, expected, results_by_test, min_agree,
                   stress_predicted, cand_count, stress_count, num_samples,
                   num_additional, verified_candidates, selected>>

\* lines 108-130: majority_vote has returned
PipelineVoted ==
    /\ stage = "vote"
    /\ op = "majority_vote"
    /\ pc = "returned"
    /\ PipelineReturns(IF ret = None THEN None ELSE final_pool[ret])
    /\ UNCHANGED <<debugVars, runnerVars, countVars, gen, expected, results_by_test, min_agree,
                   stress_predicted, cand_count, stress_count, num_samples,
                   num_additional, verified_candidates, filtered_candidates,
                   final_pool>>

NextPipeline ==
    \/ PipelineGenerated
    \/ NextVerify
    \/ PipelineVerified
    \/ NextOracle
    \/ PipelineBuilt
    \/ NextFilter
    \/ PipelineFiltered
    \/ NextVote
    \/ PipelineVoted

SpecPipeline == InitPipeline /\ [][NextPipeline]_vars

\* ---------------------------------------------------- execution permits
\* src/run.py run_pipeline with the executors of src/executor.py, the
\* executions of a stage counted instead of told apart: launched run_file
\* calls are waiting for a permit, in flight, or resolved.  What a stage
\* returns is any value the stage function can return.

Min(a, b) == IF a <= b THEN a ELSE b

\* The limits of the executors that the stage functions create.
ExecutionLimits == {VerifyConcurrency, StressConcurrency, FilterConcurrency, VoteConcurrency}

\* A stage creates its executor (CodeExecutor(max_concurrency=limit)) and its
\* gather makes n run_file calls: the first take the permits, the others wait.
StartBatch(limit, n) ==
    /\ max_concurrency' = limit
    /\ launched' = n
    /\ inflight' = Min(limit, n)
    /\ waiting' = n - Min(limit, n)
    /\ sem' = limit - Min(limit, n)
    /\ resolved' = 0

\* run_file returns and leaves "async with self._sem" (line 24): the permit
\* goes to the first waiter, if there is one.
AfterReleaseNoWake(w, i, s) == [waiting |-> w, inflight |-> i - 1, sem |-> s + 1]
AfterRelease(w, i, s) ==
    IF w > 0 THEN [waiting |-> w - 1, inflight |-> i, sem |-> s]
             ELSE [waiting |-> w, inflight |-> i - 1, sem |-> s + 1]

\* the members of list s at the positions S, in list order
SubList(s, S) == [k \in 1..Cardinality(S) |-> s[Sorted(S)[k]]]

\* run.py line 108 and executor.py lines 165-178: majority_vote is called on
\* the pool
StartVote(pool) ==
    /\ stage' = "vote"
    /\ op' = "majority_vote"
    /\ files' = Len(pool)
    /\ nInputs' = num_additional
    /\ StartBatch(VoteConcurrency, IF pool = <<>> THEN 0 ELSE Len(pool) * num_additional)

InitLimiter ==
    /\ stage = "generate"
    /\ op = "run_pipeline"
    /\ pc = "counting"
    /\ num_samples \in 0..NumSamples
    /\ num_additional \in 0..ManyInputs
    /\ expected = <<>>
    /\ cand_count = 0
    /\ stress_count = 0
    /\ verified_candidates = <<>>
    /\ filtered_candidates = <<>>
    /\ final_pool = <<>>
    /\ selected = Pending
    /\ launched = 0 /\ waiting = 0 /\ inflight = 0 /\ resolved = 0
    /\ gen = NoGen
    /\ files = 0
    /\ nInputs = 0
    /\ task = <<>>
    /\ runs = <<>>
    /\ sem = 0
    /\ waiters = <<>>
    /\ results = <<>>
    /\ ret = Pending
    /\ NoOracle
    /\ NoDebug
    /\ max_concurrency = 0
    /\ rpc = <<>> /\ proc = <<>> /\ tmp = <<>> /\ beh = <<>>
    /\ outcome = <<>> /\ exc = <<>> /\ cancelled = <<>>

limiterFixed == <<pc, runs, ret, expected, results_by_test, min_agree, stress_predicted,
                  debugVars, rpc, proc, tmp, beh, outcome, exc, cancelled,
                  num_samples, num_additional, gen>>

\* run.py lines 74-89 and executor.py lines 67-79: the generators have
\* returned; verify_sample_tests starts one check_candidate per file, each
\* of which calls run_file for the first sample test (task[c] is the sample
\* test candidate c is at, 0 when its check_candidate has returned).
LimGenerated ==
    /\ pc = "counting"
    /\ stage = "generate"
    /\ \E cc \in 0..NumCands, sc \in 0..NumStress :
          /\ cand_count' = cc
          /\ stress_count' = sc
          /\ IF NoneGenerated(cc)
             THEN /\ stage' = "done"
                  /\ selected' = None
                  /\ UNCHANGED <<op, files, nInputs, task, results, waiters, sem,
                                 max_concurrency, countVars>>
             ELSE LET n == IF num_samples = 0 THEN 0 ELSE cc
                      first == Min(VerifyConcurrency, n)
                  IN /\ stage' = "verify"
                     /\ selected' = selected
                     /\ op' = "verify_sample_tests"
                     /\ files' = cc
                     /\ nInputs' = num_samples
                     /\ task' = [c \in 1..cc |-> IF num_samples = 0 THEN 0 ELSE 1]
                     /\ results' = [c \in 1..cc |-> IF num_samples = 0 THEN c ELSE Pending]
                     /\ waiters' = [k \in 1..(n - first) |-> first + k]
                     /\ StartBatch(VerifyConcurrency, n)
    /\ UNCHANGED <<limiterFixed, verified_candidates, filtered_candidates, final_pool>>

\* executor.py lines 74-77: the run_file call of candidate c returns, the
\* sample test passed or not; check_candidate goes on to the next sample
\* test (a new run_file call, behind the calls that are waiting) or returns.
LimSampleResolves(c) ==
    /\ pc = "counting"
    /\ stage = "verify"
    /\ task[c] > 0
    /\ \A k \in DOMAIN waiters : waiters[k] # c
    /\ resolved' = resolved + 1
    /\ \E ok \in BOOLEAN :
          IF ok /\ task[c] < num_samples
          THEN /\ task' = [task EXCEPT ![c] = @ + 1]
               /\ launched' = launched + 1
               /\ waiters' = IF waiters = <<>> THEN waiters ELSE Append(Tail(waiters), c)
               /\ UNCHANGED <<results, waiting, inflight, sem>>
          ELSE /\ task' = [task EXCEPT ![c] = 0]
               /\ results' = [results EXCEPT ![c] = IF ok THEN c ELSE None]
               /\ launched' = launched
               /\ waiters' = IF waiters = <<>> THEN waiters ELSE Tail(waiters)
               /\ LET a == AfterRelease(waiting, inflight, sem)
                  IN waiting' = a.waiting /\ inflight' = a.inflight /\ sem' = a.sem
    /\ UNCHANGED <<limiterFixed, stage, op, files, nInputs, max_concurrency, cand_count,
                   stress_count, verified_candidates, filtered_candidates, final_pool,
                   selected>>

\* executor.py lines 79-83, run.py lines 91-97, executor.py lines 93-107:
\* verify_sample_tests returns; build_stress_predicted_tests starts
LimVerified ==
    /\ pc = "counting"
    /\ stage = "verify"
    /\ \A c \in DOMAIN task : task[c] = 0
    /\ LET v == SelectSeq(results, NotNone)
       IN /\ verified_candidates' = v
          /\ IF NoneVerified(v)
             THEN /\ stage' = "done"
                  /\ selected' = None
                  /\ UNCHANGED <<op, files, nInputs, sem, max_concurrency, countVars>>
             ELSE /\ stage' = "build"
                  /\ selected' = selected
                  /\ op' = "build_stress_predicted_tests"
                  /\ files' = stress_count
                  /\ nInputs' = num_additional
                  /\ StartBatch(StressConcurrency, stress_count * num_additional)
    /\ task' = <<>>
    /\ results' = <<>>
    /\ waiters' = <<>>
    /\ UNCHANGED <<limiterFixed, cand_count, stress_count, filtered_candidates, final_pool>>

\* executor.py lines 24-52: a run_file call of a gathered stage returns
LimRunResolves ==
    /\ pc = "counting"
    /\ stage \in {"build", "filter", "vote"}
    /\ inflight > 0
    /\ resolved' = resolved + 1
    /\ LET a == AfterRelease(waiting, inflight, sem)
       IN waiting' = a.waiting /\ inflight' = a.inflight /\ sem' = a.sem
    /\ UNCHANGED <<limiterFixed, stage, op, files, nInputs, task, results, waiters,
                   max_concurrency, launched, cand_count, stress_count,
                   verified_candidates, filtered_candidates, final_pool, selected>>

\* executor.py lines 109-120, run.py line 101, executor.py lines 130-151:
\* the oracle has k predictions (none unless min_agree stress candidates
\* exist); with no prediction the filter returns its list at once (line 132)
\* and the pool goes to majority_vote, otherwise the filter runs every
\* verified candidate on the k predicted inputs.
LimBuilt ==
    /\ pc = "counting"
    /\ stage = "build"
    /\ resolved = launched
    /\ \E k \in 0..num_additional :
          /\ k > 0 => stress_count >= PipelineMinAgree
          /\ IF k = 0
             THEN /\ filtered_candidates' = SkipFilter(verified_candidates)
                  /\ final_pool' = FinalPool(SkipFilter(verified_candidates), verified_candidates)
                  /\ StartVote(FinalPool(SkipFilter(verified_candidates), verified_candidates))
             ELSE /\ stage' = "filter"
                  /\ op' = "filter_by_stress_tests"
                  /\ files' = Len(verified_candidates)
                  /\ nInputs' = k
                  /\ StartBatch(FilterConcurrency, Len(verified_candidates) * k)
                  /\ UNCHANGED <<filtered_candidates, final_pool>>
    /\ UNCHANGED <<limiterFixed, task, results, waiters, cand_count, stress_count,
                   verified_candidates, selected>>

\* executor.py lines 152-155 and run.py lines 104-108: the filter returns
\* some of the verified candidates, in list order
LimFiltered ==
    /\ pc = "counting"
    /\ stage = "filter"
    /\ resolved = launched
    /\ \E S \in SUBSET DOMAIN verified_candidates :
          /\ filtered_candidates' = SubList(verified_candidates, S)
          /\ final_pool' = FinalPool(SubList(verified_candidates, S), verified_candidates)
          /\ StartVote(FinalPool(SubList(verified_candidates, S), verified_candidates))
    /\ UNCHANGED <<limiterFixed, task, results, waiters, cand_count, stress_count,
                   verified_candidates, selected>>

\* executor.py lines 180-192 and run.py lines 110-130: majority_vote returns
\* a member of the pool and run_pipeline returns it
LimVoted ==
    /\ pc = "counting"
    /\ stage = "vote"
    /\ resolved = launched
    /\ \E k \in DOMAIN final_pool : selected' = final_pool[k]
    /\ stage' = "done"
    /\ UNCHANGED <<limiterFixed, op, files, nInputs, task, results, waiters, sem,
                   max_concurrency, countVars, cand_count, stress_count,
                   verified_candidates, filtered_candidates, final_pool>>

NextLimiter ==
    \/ LimGenerated
    \/ \E c \in DOMAIN task : LimSampleResolves(c)
    \/ LimVerified
    \/ LimRunResolves
    \/ LimBuilt
    \/ LimFiltered
    \/ LimVoted

SpecLimiter == InitLimiter /\ [][NextLimiter]_vars

\* Every generator call returns, every launched process exits or hits its
\* deadline and every coroutine that can run is run: no step that stays
\* possible is put off forever.
SpecLimiterLive == SpecLimiter /\ WF_vars(NextLimiter)

\* ---------------------------------------------------- generation, then the stages
\* src/run.py run_pipeline from its call: the two generators of
\* src/generate_candidates.py and src/generate_stress_candidates.py, each
\* with its own OpenAIClient (src/llm_client.py), then the stage functions.

\* generate_multiple: n generate calls are gathered on a client of the given
\* concurrency; each enters "async with self._sem"
Client(limit, n) ==
    [limit |-> limit, requested |-> n, waiting |-> n - Min(limit, n),
     inflight |-> Min(limit, n), resolved |-> 0, saved |-> 0]

\* a generate call returns, with a response or with "" after an API error,
\* and leaves "async with self._sem"; a non-empty response becomes a file
Responded(cl, nonempty) ==
    LET a == AfterRelease(cl.waiting, cl.inflight, cl.limit - cl.inflight)
    IN [cl EXCEPT !.waiting = a.waiting, !.inflight = a.inflight,
                  !.resolved = @ + 1,
                  !.saved = IF nonempty THEN @ + 1 ELSE @]

\* run.py line 77: the gather over the two generators has resolved
GatherDoneFirst == gen["candidates"].resolved = gen["candidates"].requested
GatherDone == \A g \in DOMAIN gen : gen[g].resolved = gen[g].requested

\* the files of a pipeline run stay within the bounds of the model
FitsPipeline(g, n) ==
    /\ n <= (IF g = "candidates" THEN PipeCands ELSE PipeStress)
    /\ n * num_additional <= PipeExecs
    /\ g = "candidates" => n * num_samples <= PipeExecs

InitStages ==
    /\ stage = "start"
    /\ op = "run_pipeline"
    /\ pc = "start"
    /\ num_samples \in 0..PipeSamples
    /\ num_additional \in 0..PipeInputs
    /\ expected \in [1..num_samples -> Expecteds]
    /\ cand_count = 0
    /\ stress_count = 0
    /\ verified_candidates = <<>>
    /\ filtered_candidates = <<>>
    /\ final_pool = <<>>
    /\ selected = Pending
    /\ launched = 0 /\ waiting = 0 /\ inflight = 0 /\ resolved = 0
    /\ gen = NoGen
    /\ files = 0
    /\ nInputs = 0
    /\ task = <<>>
    /\ runs = <<>>
    /\ sem = 0
    /\ waiters = <<>>
    /\ results = <<>>
    /\ ret = Pending
    /\ NoOracle
    /\ NoDebug
    /\ NoRunner

stagesFixed == <<debugVars, runnerVars, countVars, expected, results_by_test, min_agree,
                 stress_predicted, num_samples, num_additional,
                 verified_candidates, filtered_candidates, final_pool>>

\* run.py lines 74-77, generate_candidates lines 48-53 (generate_stress_candidates
\* likewise): both generators create their client and call generate_multiple
StagesStart ==
    /\ stage = "start"
    /\ stage' = "generate"
    /\ \E nc \in 0..GenRequests, ns \in 0..GenRequests :
          gen' = [g \in {"candidates", "stress"} |->
                     IF g = "candidates" THEN Client(CandGenConcurrency, nc)
                                         ELSE Client(StressGenConcurrency, ns)]
    /\ UNCHANGED <<stagesFixed, op, pc, files, nInputs, execVars, ret, cand_count,
                   stress_count, selected>>

\* llm_client.py lines 31-47: one generate call of client g returns
GenResponds(g) ==
    /\ stage = "generate"
    /\ gen[g].inflight > 0
    /\ \E nonempty \in BOOLEAN :
          /\ nonempty => FitsPipeline(g, gen[g].saved + 1)
          /\ gen' = [gen EXCEPT ![g] = Responded(@, nonempty)]
    /\ UNCHANGED <<stagesFixed, stage, op, pc, files, nInputs, execVars, ret, cand_count,
                   stress_count, selected>>

\* run.py lines 77-89: both generators have returned the number of files
\* they saved; the clients are gone with them
GenGathered ==
    /\ stage = "generate"
    /\ GatherDone
    /\ cand_count' = gen["candidates"].saved
    /\ stress_count' = gen["stress"].saved
    /\ gen' = NoGen
    /\ IF NoneGenerated(gen["candidates"].saved)
       THEN PipelineReturns(None)
       ELSE /\ stage' = "verify"
            /\ selected' = selected
            /\ CallStage("verify_sample_tests", VerifyConcurrency,
                         gen["candidates"].saved, num_samples)
    /\ UNCHANGED stagesFixed

NextStages ==
    \/ StagesStart
    \/ \E g \in DOMAIN gen : GenResponds(g)
    \/ GenGathered
    \/ NextVerify
    \/ PipelineVerified
    \/ NextOracle
    \/ PipelineBuilt
    \/ NextFilter
    \/ PipelineFiltered
    \/ NextVote
    \/ PipelineVoted

SpecStages == InitStages /\ [][NextStages]_vars

\* ---------------------------------------------------- main of async_stress_test
\* src/async_stress_test.py main, steps 1 and 2: the candidates are generated
\* on the LLMClient, then every candidate is self-debugged, the self_debug
\* calls gathered; their runs share the CodeExecutor and their revision
\* requests share the LLMClient.  current_candidate[c] numbers the candidates
\* of the c-th self_debug call, 1 being the one passed in; requests counts
\* the generate_candidate calls made.  gen["llm"] is the LLMClient: the size of
\* its _sem, the permits available and the generate_candidate calls blocked
\* in "async with self._sem", FIFO.

InSeq(w, c) == \E i \in DOMAIN w : w[i] = c

\* LLMClient.generate_candidate line 34, entering "async with self._sem"
\* for the call made by coroutine c
EnteredUnbounded(L, c) == [L EXCEPT !.sem = @ - 1]
Entered(L, c) ==
    IF L.sem > 0 /\ L.waiters = <<>>
    THEN [L EXCEPT !.sem = @ - 1]
    ELSE [L EXCEPT !.waiters = Append(@, c)]

\* line 52, leaving "async with self._sem": the permit goes to the first
\* blocked call
Left(L) ==
    IF L.waiters # <<>>
    THEN [L EXCEPT !.waiters = Tail(@)]
    ELSE [L EXCEPT !.sem = @ + 1]

\* the call that takes over the permit of a call that returns
Woken(L) == IF L.waiters # <<>> THEN {Head(L.waiters)} ELSE {}

\* lines 101-103: n calls are created and started in list order
RECURSIVE EnteredAll(_, _)
EnteredAll(L, n) == IF n = 0 THEN L ELSE Entered(EnteredAll(L, n - 1), n)

\* self_debug lines 114-118 for the c-th candidate
AllOkOf(c) ==
    \A k \in Inputs : SampleOk(k, <<runs[<<c, k>>].success, runs[<<c, k>>].output>>)

InitMain ==
    /\ op = "main"
    /\ pc = "start"
    /\ files \in 0..NumCands
    /\ nInputs \in 0..NumSamples
    /\ files * nInputs <= MaxExecs
    /\ expected \in [Inputs -> Expecteds]
    /\ task = [c \in Files |-> "new"]
    /\ runs = [k \in Files \X Inputs |-> NoRun]
    /\ max_concurrency \in 1..MaxConcurrency
    /\ sem = max_concurrency
    /\ waiters = <<>>
    /\ results = [c \in Files |-> Pending]
    /\ ret = Pending
    /\ NoOracle
    /\ max_debug_attempts \in 0..MaxAttempts
    /\ attempt = [c \in Files |-> 0]
    /\ current_candidate = [c \in Files |-> None]
    /\ tested = None
    /\ rounds = 0
    /\ requests = 0
    /\ rpc = <<>> /\ proc = <<>> /\ tmp = <<>> /\ beh = <<>>
    /\ outcome = <<>> /\ exc = <<>> /\ cancelled = <<>>
    /\ stage = "none"
    /\ cand_count = 0 /\ stress_count = 0
    /\ num_samples = 0 /\ num_additional = 0
    /\ verified_candidates = <<>> /\ filtered_candidates = <<>> /\ final_pool = <<>>
    /\ selected = Pending
    /\ launched = 0 /\ waiting = 0 /\ inflight = 0 /\ resolved = 0
    /\ \E limit \in 1..MaxConcurrency :
          gen = [g \in {"llm"} |-> [limit |-> limit, sem |-> limit, waiters |-> <<>>]]

mainFixed == <<op, files, nInputs, expected, results_by_test, min_agree, stress_predicted,
               max_debug_attempts, tested, rounds, runnerVars, stage, cand_count,
               stress_count, num_samples, num_additional, verified_candidates,
               filtered_candidates, final_pool, selected, countVars>>

\* line 211, lines 101-103: the generate_candidate calls of step 1
MainStart ==
    /\ op = "main"
    /\ pc = "start"
    /\ pc' = "generate"
    /\ LET L == EnteredAll(gen["llm"], files)
       IN /\ gen' = [gen EXCEPT !["llm"] = L]
          /\ task' = [c \in Files |-> IF InSeq(L.waiters, c) THEN "Waiting"
                                                            ELSE "Generating"]
    /\ requests' = files
    /\ UNCHANGED <<mainFixed, runs, sem, waiters, results, ret, attempt,
                   current_candidate>>

\* lines 34-52: the c-th call of step 1 returns its candidate
MainCandidate(c) ==
    /\ op = "main"
    /\ pc = "generate"
    /\ task[c] = "Generating"
    /\ gen' = [gen EXCEPT !["llm"] = Left(@)]
    /\ current_candidate' = [current_candidate EXCEPT ![c] = 1]
    /\ task' = [d \in Files |-> IF d = c THEN "Generated"
                                ELSE IF d \in Woken(gen["llm"]) THEN "Generating"
                                ELSE task[d]]
    /\ UNCHANGED <<mainFixed, pc, runs, sem, waiters, results, ret, attempt, requests>>

\* lines 211-214: the gather of step 1 has resolved; the self_debug
\* coroutines are created
MainGenerated ==
    /\ op = "main"
    /\ pc = "generate"
    /\ \A c \in Files : task[c] = "Generated"
    /\ pc' = "gather"
    /\ task' = [c \in Files |-> "new"]
    /\ UNCHANGED <<mainFixed, runs, sem, waiters, results, ret, attempt,
                   current_candidate, requests, gen>>

\* lines 107-112: the c-th self_debug starts and launches its first round
AllBegin(c) ==
    /\ op = "main"
    /\ StartsNext(c)
    /\ IF LoopContinues(attempt[c], max_debug_attempts)
       THEN /\ Launch(c, SeqTo(nInputs))
            /\ task' = [task EXCEPT ![c] = "Testing"]
            /\ results' = results
       ELSE /\ task' = [task EXCEPT ![c] = "Exhausted"]
            /\ results' = [results EXCEPT ![c] = None]
            /\ UNCHANGED <<runs, sem, waiters>>
    /\ UNCHANGED <<mainFixed, pc, ret, attempt, current_candidate, requests, gen>>

\* one subprocess of a round of the c-th self_debug ends
AllRunFinish(c, k) ==
    /\ op = "main"
    /\ task[c] = "Testing"
    /\ \E b \in MainBehaviours : Finish(c, k, run(b))
    /\ UNCHANGED <<mainFixed, pc, task, results, ret, attempt, current_candidate,
                   requests, gen>>

\* lines 114-125, after the gather of line 112 has resolved: return the
\* candidate, or count the attempt and call generate_candidate; the results
\* of the round are not read again
AllEvaluate(c) ==
    /\ op = "main"
    /\ task[c] = "Testing"
    /\ Gathered(c, nInputs)
    /\ IF AllOkOf(c)
       THEN /\ task' = [task EXCEPT ![c] = "Passed"]
            /\ results' = [results EXCEPT ![c] = current_candidate[c]]
            /\ UNCHANGED <<attempt, gen, requests>>
       ELSE /\ attempt' = [attempt EXCEPT ![c] = @ + 1]
            /\ requests' = requests + 1
            /\ LET L == Entered(gen["llm"], c)
               IN /\ gen' = [gen EXCEPT !["llm"] = L]
                  /\ task' = [task EXCEPT ![c] = IF InSeq(L.waiters, c) THEN "Waiting"
                                                                        ELSE "Generating"]
            /\ results' = results
    /\ runs' = [key \in DOMAIN runs |-> IF key[1] = c THEN NoRun ELSE runs[key]]
    /\ UNCHANGED <<mainFixed, pc, sem, waiters, ret, current_candidate>>

\* line 125 resolves with a new candidate, then the loop head (line 109):
\* another round (lines 111-112) or return None (line 127)
AllRevised(c) ==
    /\ op = "main"
    /\ pc = "gather"
    /\ task[c] = "Generating"
    /\ gen' = [gen EXCEPT !["llm"] = Left(@)]
    /\ current_candidate' = [current_candidate EXCEPT ![c] = attempt[c] + 1]
    /\ LET again == LoopContinues(attempt[c], max_debug_attempts)
       IN /\ task' = [d \in Files |-> IF d = c THEN (IF again THEN "Testing" ELSE "Exhausted")
                                      ELSE IF d \in Woken(gen["llm"]) THEN "Generating"
                                      ELSE task[d]]
          /\ IF again
             THEN /\ Launch(c, SeqTo(nInputs))
                  /\ results' = results
             ELSE /\ results' = [results EXCEPT ![c] = None]
                  /\ UNCHANGED <<runs, sem, waiters>>
    /\ UNCHANGED <<mainFixed, pc, ret, attempt, requests>>

\* lines 214-215: the gather over the self_debug calls has resolved
MainDebugged ==
    /\ op = "main"
    /\ pc = "gather"
    /\ \A c \in Files : task[c] \in {"Passed", "Exhausted"}
    /\ pc' = "returned"
    /\ ret' = SelectSeq(results, NotNone)
    /\ UNCHANGED <<mainFixed, task, runs, sem, waiters, results, attempt,
                   current_candidate, requests, gen>>

NextMain ==
    \/ MainStart
    \/ \E c \in Files : MainCandidate(c)
    \/ MainGenerated
    \/ \E c \in Files : AllBegin(c)
    \/ \E c \in Files, k \in Inputs : AllRunFinish(c, k)
    \/ \E c \in Files : AllEvaluate(c)
    \/ \E c \in Files : AllRevised(c)
    \/ MainDebugged

SpecMain == InitMain /\ [][NextMain]_vars

\* the two programs that generate and execute, each from its start: run.py
\* with its OpenAIClients and async_stress_test.py main with its LLMClient
InitTwoLimiters == InitStages \/ InitMain

NextTwoLimiters ==
    \/ NextStages
    \/ NextMain

SpecTwoLimiters == InitTwoLimiters /\ [][NextTwoLimiters]_vars

\* ---- properties of the oracle builder

OracleBuilt == op = "build_stress_predicted_tests" /\ pc = "returned"

\* The stress candidates whose execution on input i succeeded with output v.
Voters(i, v) == {c \in Files : runs[<<c, i>>].st = "done" /\ runs[<<c, i>>].success
                                /\ runs[<<c, i>>].output = v}
OutputsAt(i) == {runs[<<c, i>>].output : c \in {d \in Files : runs[<<d, i>>].success}}
MaxCount(i) ==
    IF OutputsAt(i) = {} THEN 0
    ELSE LET v == CHOOSE v \in OutputsAt(i) :
                    \A w \in OutputsAt(i) : Cardinality(Voters(i, w)) <= Cardinality(Voters(i, v))
         IN Cardinality(Voters(i, v))

\* C1: once build_stress_predicted_tests has returned with min_agree >= 1,
\* an input index is in the oracle iff the highest occurrence count among
\* the successful stress outputs for it is >= min_agree, and the oracle's
\* value for it is an output that has that highest count.
C1_OracleIffMaxCount ==
    (OracleBuilt /\ min_agree >= 1) =>
        \A i \in Inputs :
            /\ (i \in DOMAIN stress_predicted) <=> (MaxCount(i) >= min_agree)
            /\ (i \in DOMAIN stress_predicted) =>
                   Cardinality(Voters(i, stress_predicted[i])) = MaxCount(i)

\* Three stress candidates voted "4", "4", "5" on the first input, min_agree
\* is 2 and the oracle predicts "4" for it.
C1_Witness ==
    /\ OracleBuilt
    /\ files = 3 /\ nInputs >= 1
    /\ min_agree = 2
    /\ Cardinality(Voters(1, T4)) = 2 /\ Cardinality(Voters(1, T5)) = 1
    /\ 1 \in DOMAIN stress_predicted /\ stress_predicted[1] = T4

\* The output of the earliest stress candidate, in list order, among the
\* candidates whose output on input i has the highest count.
FirstInListOrder(i) ==
    LET top == {c \in Files : runs[<<c, i>>].success
                   /\ Cardinality(Voters(i, runs[<<c, i>>].output)) = MaxCount(i)}
        c == CHOOSE c \in top : \A d \in top : c <= d
    IN runs[<<c, i>>].output

\* C2: when several outputs share the maximal vote count for an index, the
\* oracle's value is the output of the earliest stress candidate in list
\* order, whatever the completion order of the stress executions.
C2_TieBreakByListOrder ==
    OracleBuilt =>
        \A i \in DOMAIN stress_predicted : stress_predicted[i] = FirstInListOrder(i)

\* C3: when aggregation has ended, the votes recorded for input index i are,
\* as a multiset, the outputs of the stress candidates whose execution on i
\* succeeded; no key other than an input index is recorded.  While the
\* gather is running the same holds for the candidates that have collected.
Collected(i, v) == {c \in Voters(i, v) : task[c] = "done"}
C3_VotesExact ==
    op = "build_stress_predicted_tests" =>
        /\ DOMAIN results_by_test \subseteq Inputs
        /\ \A i \in Inputs :
              LET votes == VotesOf(results_by_test, i)
              IN /\ \A k \in DOMAIN votes : Collected(i, votes[k]) # {}
                 /\ \A c \in Files :
                       (task[c] = "done" /\ runs[<<c, i>>].success) =>
                          Count(votes, runs[<<c, i>>].output)
                             = Cardinality(Collected(i, runs[<<c, i>>].output))

\* Aggregation has ended, the second stress candidate collected before the
\* first, one execution failed, and the two indices hold different votes.
C3_Witness ==
    /\ OracleBuilt
    /\ files = 3 /\ nInputs = 2
    /\ ~runs[<<3, 1>>].success /\ runs[<<3, 2>>].success
    /\ runs[<<1, 1>>].output = T4 /\ runs[<<2, 1>>].output = T5
    /\ results_by_test[1] = <<T5, T4>>
    /\ Len(results_by_test[2]) = 3

\* ---- properties of the oracle filter

FilterReturned == op = "filter_by_stress_tests" /\ pc = "returned"
Range(q) == {q[k] : k \in DOMAIN q}

\* C4: with an empty oracle the filter returns the candidate list unchanged
\* (same members, same order) and creates no subprocess at any time.
C4_EmptyOracleNoOp ==
    (op = "filter_by_stress_tests" /\ DOMAIN stress_predicted = {}) =>
        /\ \A key \in DOMAIN runs : runs[key].st = "none" /\ runs[key].n = 0
        /\ pc # "gather"
        /\ pc = "returned" => ret = SeqTo(files)

\* The filter has returned on three candidates, two inputs and an empty oracle.
C4_Witness ==
    /\ FilterReturned
    /\ DOMAIN stress_predicted = {}
    /\ files = 3 /\ nInputs = 2
    /\ ret = <<1, 2, 3>>

\* The executions of candidate c on input index idx.
RunsOn(c, idx) == {k \in Inputs : runs[<<c, k>>].st # "none" /\ runs[<<c, k>>].inp = idx}

\* C5: with a non-empty oracle, once the filter has returned a candidate is
\* in the result iff on every oracle-covered index its execution succeeded
\* with a trimmed output equal to the oracle's prediction; the result keeps
\* the list order; every candidate, kept or dropped, was executed exactly
\* once on each covered index (no re-run).
C5_FilterSurvivors ==
    (FilterReturned /\ DOMAIN stress_predicted # {}) =>
        /\ \A c \in Files :
              /\ \A idx \in DOMAIN stress_predicted :
                    /\ Cardinality(RunsOn(c, idx)) = 1
                    /\ \A k \in RunsOn(c, idx) : runs[<<c, k>>].n = 1
              /\ (c \in Range(ret)) <=>
                    \A idx \in DOMAIN stress_predicted :
                        \A k \in RunsOn(c, idx) :
                            /\ runs[<<c, k>>].success
                            /\ Strip(runs[<<c, k>>].output) = stress_predicted[idx]
        /\ \A a, b \in DOMAIN ret : a < b => ret[a] < ret[b]

\* Two indices are covered; the first candidate matches both and survives,
\* the second matches the first index only and the third fails on one: both
\* are dropped.
C5_Witness ==
    /\ FilterReturned
    /\ files = 3 /\ nInputs = 2
    /\ DOMAIN stress_predicted = {1, 2}
    /\ stress_predicted[1] = T4 /\ stress_predicted[2] = T5
    /\ runs[<<2, 1>>].success /\ runs[<<2, 1>>].output = T4
    /\ runs[<<2, 2>>].success /\ runs[<<2, 2>>].output = T4
    /\ ~runs[<<3, 2>>].success
    /\ ret = <<1>>

\* ---- properties of the consensus selector

VoteReturned == op = "majority_vote" /\ pc = "returned"

\* The OutputVector of candidate c: per input, the output text or the error
\* marker of a failed execution, read from the executions themselves.
OutputVector(c) ==
    [i \in Inputs |->
        LET k == CHOOSE k \in Inputs : runs[<<c, k>>].inp = i
        IN IF runs[<<c, k>>].success THEN runs[<<c, k>>].output ELSE ERROR_MARK]
Group(c) == {d \in Files : OutputVector(d) = OutputVector(c)}
Earliest(G) == CHOOSE c \in G : \A d \in G : c <= d

\* C6: on a non-empty list select returns the first member, in list order,
\* of a group of maximal size, and among groups of maximal size of the one
\* whose first member comes earliest in the list.
C6_SelectLargestGroup ==
    (VoteReturned /\ files > 0) =>
        /\ ret \in Files
        /\ ret = Earliest(Group(ret))
        /\ \A c \in Files : Cardinality(Group(c)) <= Cardinality(Group(ret))
        /\ \A c \in Files :
              Cardinality(Group(c)) = Cardinality(Group(ret)) => ret <= Earliest(Group(c))

\* A:("1","2"), B:("1","2"), C:("9","9") returns A.
C6_Witness ==
    /\ VoteReturned
    /\ files = 3 /\ nInputs = 2
    /\ OutputVector(1) = <<T1, T2>> /\ runs[<<1, 1>>].success /\ runs[<<1, 2>>].success
    /\ OutputVector(2) = <<T1, T2>> /\ runs[<<2, 1>>].success /\ runs[<<2, 2>>].success
    /\ OutputVector(3) = <<T9, T9>>
    /\ ret = 1

\* C7: select returns None iff the candidate list is empty, and a member of
\* the list otherwise.
C7_NoneIffEmpty ==
    VoteReturned =>
        /\ (ret = None) <=> (files = 0)
        /\ files > 0 => ret \in Files

\* Every execution of three candidates on two inputs failed and a candidate
\* was returned.
C7_Witness ==
    /\ VoteReturned
    /\ files = 3 /\ nInputs = 2
    /\ \A key \in DOMAIN runs : runs[key].st = "done" /\ ~runs[key].success
    /\ ret \in Files

\* C8: two candidates are in the same group only if, on every input, both
\* succeeded with the same output or both failed.
C8_MarkerDistinct ==
    op = "majority_vote" =>
        \A c, d \in Files :
            (task[c] = "done" /\ task[d] = "done" /\ results[c][2] = results[d][2]) =>
                \A k \in Inputs :
                    \/ /\ runs[<<c, k>>].success /\ runs[<<d, k>>].success
                       /\ runs[<<c, k>>].output = runs[<<d, k>>].output
                    \/ ~runs[<<c, k>>].success /\ ~runs[<<d, k>>].success

\* ---- properties of sample verification and of the self-debug loop

\* Candidate slot c was executed on every sample test, and each execution
\* succeeded with a trimmed output equal to the trimmed expected output.
PassedAllSamples(c) ==
    \A k \in Inputs :
        /\ runs[<<c, k>>].st = "done" /\ runs[<<c, k>>].inp = k
        /\ runs[<<c, k>>].success
        /\ Strip(runs[<<c, k>>].output) = Strip(expected[k])

\* C9: every candidate returned by verify_sample_tests or by self_debug
\* passed all sample tests; self_debug is in Passed iff the candidate of the
\* current round passed them all (in Revising and in Exhausted the round
\* just run did not), it returns the candidate of that round, and it returns
\* None exactly in Exhausted.
C9_ReturnedPassedSamples ==
    /\ op = "verify_sample_tests" =>
          /\ \A c \in Files : results[c] = c => PassedAllSamples(c)
          /\ pc = "returned" => \A c \in Range(ret) : c \in Files /\ PassedAllSamples(c)
    /\ op = "self_debug" =>
          /\ pc = "Passed" => /\ PassedAllSamples(1)
                              /\ ret = current_candidate
                              /\ tested = current_candidate
          /\ pc \in {"Revising", "Exhausted"} => ~PassedAllSamples(1)
          /\ (pc = "Exhausted") <=> (ret = None)
          /\ pc \in {"start", "Testing", "Revising"} => ret = Pending

\* self_debug returned its second revision, which passed two sample tests
\* whose expected output and raw output differ in trailing whitespace.
C9_Witness ==
    /\ op = "self_debug"
    /\ pc = "Passed"
    /\ nInputs = 2
    /\ expected[1] = T4nl
    /\ runs[<<1, 1>>].output = T4
    /\ rounds = 3
    /\ ret = 3

\* C10: self_debug returns None only after exactly max_debug_attempts + 1
\* rounds of sample tests, every one of them failed; it never runs more
\* rounds than that, and until it has returned it can always take a step.
C10_ExhaustedAfterNPlusOne ==
    op = "self_debug" =>
        /\ rounds <= max_debug_attempts + 1
        /\ pc = "Exhausted" => /\ rounds = max_debug_attempts + 1
                               /\ ret = None
        /\ pc \in {"Revising", "Exhausted"} => attempt = rounds
        /\ pc \notin {"Passed", "Exhausted"} => ENABLED NextDebug

\* With max_debug_attempts = 2, self_debug returned None after 3 rounds.
C10_Witness ==
    /\ op = "self_debug"
    /\ pc = "Exhausted"
    /\ max_debug_attempts = 2
    /\ rounds = 3
    /\ ret = None

\* C11: one self_debug call makes at most max_debug_attempts requests to the
\* generator: once the attempt counter has reached the maximum, no further
\* candidate is requested.
C11_RequestsAtMostMax ==
    op = "self_debug" => requests <= max_debug_attempts

\* ---- properties of the process runner

RunnerOp == op \in {"run_file", "run"}

\* run r has ended, by a return or by an exception
Ended(r) == rpc[r] \in {"returned", "raised"}

\* The failure outcomes of the two runners.
NonZeroExitOutcome(b) ==
    IF op = "run_file" THEN <<FALSE, ERROR_PREFIX \o Strip(b.stderr)>>
    ELSE <<FALSE, IF Strip(b.stderr) = <<>> THEN ERROR_MARK ELSE Strip(b.stderr)>>
TimeoutOutcome == IF op = "run_file" THEN <<FALSE, TIMEOUT>> ELSE <<FALSE, TIMEOUT_MARK>>

\* C13: a run whose process was launched, and which was not cancelled,
\* returns one outcome: Ok with the trimmed stdout iff the process exited
\* with code zero before the deadline, Failed with the trimmed stderr (or the
\* generic marker) iff it exited with another code, and the timeout outcome
\* iff the deadline passed first.
C13_Classification ==
    RunnerOp =>
        \A r \in Runs :
            (Ended(r) /\ beh[r].kind # "none" /\ ~cancelled[r]) =>
                /\ rpc[r] = "returned"
                /\ (beh[r].kind = "exit" /\ beh[r].rc = 0) <=>
                       (outcome[r] = <<TRUE, Strip(beh[r].stdout)>>)
                /\ (beh[r].kind = "exit" /\ beh[r].rc # 0) =>
                       (outcome[r] = NonZeroExitOutcome(beh[r]))
                /\ (beh[r].kind = "timeout") <=> (outcome[r] = TimeoutOutcome)

\* C14: a run that was not cancelled never ends by an exception: a launch
\* error, a non-zero exit and a timeout are all returned as outcomes.
C14_FailuresAreData ==
    RunnerOp => \A r \in Runs : ~cancelled[r] => rpc[r] # "raised"

\* C15: the temporary file written by run exists while the run is inside
\* the executor, and no longer exists once the run has returned (by success,
\* by a non-zero exit or by a timeout).
C15_TempFileRemoved ==
    RunnerOp =>
        \A r \in Runs :
            /\ rpc[r] = "returned" => ~tmp[r]
            /\ (op = "run" /\ rpc[r] \in {"launching", "communicating", "reaping"}) => tmp[r]

\* Two calls of run have returned, one with the output of its process and
\* one by the timeout path after its process was killed and collected; both
\* temporary files are gone.
C15_Witness ==
    /\ op = "run"
    /\ \E r, q \in Runs :
          /\ rpc[r] = "returned" /\ outcome[r] = <<TRUE, T4>> /\ ~tmp[r]
          /\ rpc[q] = "returned" /\ outcome[q] = <<FALSE, TIMEOUT_MARK>>
          /\ proc[q] = "reaped" /\ ~tmp[q]

\* C16: a run that has returned the timeout outcome for a process that hit
\* the deadline has killed the process and waited until it was collected.
C16_KilledAndReapedBeforeTimeout ==
    RunnerOp =>
        \A r \in Runs :
            (rpc[r] = "returned" /\ beh[r].kind = "timeout") =>
                proc[r] \in {"reaped", "exited"}

\* C17: once a cancelled run has ended, its subprocess is not alive and its
\* temporary file does not exist.
C17_CancelledLeavesNothing ==
    RunnerOp =>
        \A r \in Runs :
            (cancelled[r] /\ Ended(r)) => (proc[r] # "alive" /\ ~tmp[r])

\* ---- properties of the pipeline coordinator

\* run_pipeline has chosen the pool and called majority_vote on it
PoolChosen == stage \in {"vote", "done"} /\ op = "majority_vote"

\* C18: the pool handed to majority_vote is the filtered list when the filter
\* returned at least one candidate and the whole list of sample-verified
\* candidates when it returned none; it is never empty, and a pool is chosen
\* whenever at least one candidate passed the sample tests.
C18_FallbackPool ==
    stage # "none" =>
        /\ PoolChosen =>
              /\ filtered_candidates # <<>> => final_pool = filtered_candidates
              /\ filtered_candidates = <<>> => final_pool = verified_candidates
              /\ final_pool # <<>>
              /\ Range(filtered_candidates) \subseteq Range(verified_candidates)
              /\ stage = "vote" => files = Len(final_pool)
        /\ (stage = "done" /\ verified_candidates # <<>>) => PoolChosen

\* Two candidates passed the sample test, the oracle predicts an output and
\* the filter rejected both: the pool is the two verified candidates.
C18_Witness ==
    /\ PoolChosen
    /\ DOMAIN stress_predicted # {}
    /\ filtered_candidates = <<>>
    /\ Len(verified_candidates) = 2
    /\ final_pool = verified_candidates

\* C19: when run_pipeline has returned, its result is None iff no candidate
\* was generated or no candidate passed the sample tests; otherwise it is
\* one of the candidates that passed them.
C19_NoneIffExhausted ==
    stage = "done" =>
        /\ (selected = None) <=> (cand_count = 0 \/ verified_candidates = <<>>)
        /\ selected # None => /\ selected \in Range(verified_candidates)
                              /\ selected \in Range(final_pool)

\* The pipeline returned a candidate although the oracle's filter had
\* rejected every verified candidate.
C19_Witness ==
    /\ stage = "done"
    /\ selected # None
    /\ DOMAIN stress_predicted # {}
    /\ filtered_candidates = <<>>

\* ---- properties of the execution permits

\* C12: at every moment of a pipeline run the number of executions in
\* flight, over all stages, is at most the execution limit: no limit that an
\* executor of the run was created with is exceeded.
C12_GlobalLimit ==
    pc = "counting" => \A limit \in ExecutionLimits : inflight <= limit

\* C20: every pipeline run ends, with a candidate or with None, and a
\* run_file call that waits for a permit does not wait forever.
C20_Terminates ==
    /\ (pc = "counting") ~> (stage = "done" /\ selected # Pending)
    /\ (pc = "counting" /\ waiting > 0) ~> (waiting = 0)

\* The oracle builder has made more run_file calls than its executor has
\* permits: some are in flight, one is waiting.
C20_Witness ==
    /\ pc = "counting"
    /\ stage = "build"
    /\ inflight = StressConcurrency
    /\ sem = 0
    /\ waiting = 1

\* ---- properties of what self_debug returns

\* C28: self_debug returns only the candidate that its most recent round of
\* sample tests executed, never a revision that was not tested; when the
\* candidate passed in passes, it is returned and no generator request was
\* made.
C28_ReturnsLastTested ==
    op = "self_debug" =>
        /\ pc = "Passed" => ret = tested /\ ret = current_candidate /\ AllOk
        /\ pc = "Passed" /\ rounds = 1 => ret = 1 /\ requests = 0
        /\ pc = "Exhausted" => ret = None
        /\ ret \notin {Pending, None} => pc = "Passed"

\* The first candidate failed, the revision was tested and is returned.
C28_Witness ==
    /\ op = "self_debug"
    /\ pc = "Passed"
    /\ rounds = 2
    /\ requests = 1
    /\ ret = 2
    /\ tested = 2

\* ---- properties of the executions the filter launches

\* the run_file calls made for candidate c
CallsOf(c) == {k \in Inputs : runs[<<c, k>>].st # "none"}

\* C23: with a non-empty oracle the filter creates, for each candidate,
\* exactly one execution for each input index the oracle covers and none for
\* an index the oracle does not cover.
C23_OnlyCoveredIndices ==
    (op = "filter_by_stress_tests" /\ DOMAIN stress_predicted # {}) =>
        \A c \in Files :
            /\ \A idx \in Inputs \ DOMAIN stress_predicted : RunsOn(c, idx) = {}
            /\ \A k \in CallsOf(c) : runs[<<c, k>>].inp \in DOMAIN stress_predicted
            /\ \A k \in Inputs : runs[<<c, k>>].n <= 1
            /\ task[c] # "new" =>
                  /\ Cardinality(CallsOf(c)) = Cardinality(DOMAIN stress_predicted)
                  /\ \A idx \in DOMAIN stress_predicted : Cardinality(RunsOn(c, idx)) = 1
            /\ task[c] = "done" =>
                  \A idx \in DOMAIN stress_predicted :
                      \A k \in RunsOn(c, idx) : runs[<<c, k>>].n = 1

\* The oracle covers the second of two inputs only: each of the two
\* candidates was executed once, on the second input.
C23_Witness ==
    /\ FilterReturned
    /\ files = 2 /\ nInputs = 2
    /\ DOMAIN stress_predicted = {2}
    /\ \A c \in Files :
          /\ CallsOf(c) = {1}
          /\ runs[<<c, 1>>].inp = 2
          /\ runs[<<c, 1>>].n = 1

\* ---- properties of the permits of one executor

\* the runs inside "async with self._sem"
Holders == {r \in Runs : rpc[r] \in {"launching", "communicating", "reaping"}}

\* C26: a run takes one permit before it creates its process and gives it
\* back on every way out (return after success, non-zero exit or timeout,
\* launch error, cancellation): the permits taken are as many as the runs
\* between acquire and return, no process exists for a run that has not
\* acquired, and with no run in flight all permits are free.
C26_PermitsBalanced ==
    RunnerOp =>
        /\ sem >= 0
        /\ max_concurrency - sem = Cardinality(Holders)
        /\ Cardinality(Holders) <= max_concurrency
        /\ \A r \in Runs : rpc[r] \in {"start", "waiting"} => proc[r] = "none" /\ ~tmp[r]
        /\ \A r \in Runs : proc[r] # "none" \/ tmp[r] => rpc[r] \notin {"start", "waiting"}
        /\ Holders = {} => sem = max_concurrency

\* One run was cancelled while its process was running, the other met a
\* launch error or a deadline; both have ended and both permits are free.
C26_Witness ==
    /\ RunnerOp
    /\ max_concurrency = 1
    /\ Cardinality(Runs) = 2
    /\ \A r \in Runs : Ended(r)
    /\ \E r \in Runs : cancelled[r] /\ exc[r] = "CancelledError" /\ proc[r] = "alive"
    /\ \E r \in Runs : ~cancelled[r] /\ beh[r].kind \in {"none", "timeout"} /\ rpc[r] = "returned"
    /\ sem = max_concurrency

\* ---- properties of the candidate the pipeline returns

\* verify_sample_tests hands over exactly the candidates that passed every
\* sample test
VerifiedArePassing ==
    (stage = "verify" /\ stage' # "verify") =>
        \A c \in Files : (c \in Range(verified_candidates')) <=> PassedAllSamples(c)

\* filter_by_stress_tests hands over exactly the verified candidates that
\* matched the oracle on every covered index (all of them, with an empty
\* oracle)
FilteredAreMatching ==
    (stage = "filter" /\ stage' # "filter") =>
        \A k \in Files :
            (verified_candidates[k] \in Range(filtered_candidates')) <=>
                (DOMAIN stress_predicted = {} \/ Passes(k))

\* C27: a candidate that run_pipeline returns passed all sample tests, and
\* it is a survivor of the oracle filter when the filter left any; a
\* candidate that sample verification rejected is never returned.
C27_ReturnedIsVerified ==
    /\ [][VerifiedArePassing /\ FilteredAreMatching]_vars
    /\ [](op \in {"run_pipeline", "verify_sample_tests", "build_stress_predicted_tests",
                  "filter_by_stress_tests", "majority_vote"} /\ stage # "none" =>
            /\ Range(filtered_candidates) \subseteq Range(verified_candidates)
            /\ Range(verified_candidates) \subseteq 1..cand_count
            /\ stage \in {"build", "filter", "vote"} => selected = Pending
            /\ (stage = "done" /\ selected # None) =>
                  /\ selected \in Range(verified_candidates)
                  /\ filtered_candidates # <<>> => selected \in Range(filtered_candidates))

\* Of two candidates the first failed the sample test; the second passed
\* it, matched the oracle built by two stress candidates and is returned.
C27_Witness ==
    /\ stage = "done"
    /\ cand_count = 2
    /\ verified_candidates = <<2>>
    /\ DOMAIN stress_predicted # {}
    /\ filtered_candidates = <<2>>
    /\ selected = 2

\* ---- properties of the pairing of results with indices

\* the calls made for file c with input index idx, and what the one call
\* returned
ResultOn(c, idx) ==
    LET k == CHOOSE k \in RunsOn(c, idx) : TRUE
    IN <<runs[<<c, k>>].success, runs[<<c, k>>].output>>

\* file c was executed exactly once on each index of D and every execution
\* has returned
ExecutedOn(c, D) ==
    \A idx \in D : /\ Cardinality(RunsOn(c, idx)) = 1
                   /\ \A k \in RunsOn(c, idx) : runs[<<c, k>>].st = "done"

\* C25: results are paired with indices, not with the order in which the
\* executions complete.  In majority_vote position j of a candidate's
\* OutputVector is its outcome on input j; the filter compares the result
\* on input idx with the oracle's prediction for idx; self_debug compares
\* the result on sample k with the expected output of sample k.
C25_PairedByIndex ==
    /\ op = "majority_vote" =>
          \A c \in Files : task[c] = "done" =>
              /\ ExecutedOn(c, Inputs)
              /\ DOMAIN results[c][2] = Inputs
              /\ \A j \in Inputs :
                    results[c][2][j] = IF ResultOn(c, j)[1] THEN ResultOn(c, j)[2]
                                                            ELSE ERROR_MARK
    /\ op = "filter_by_stress_tests" =>
          \A c \in Files : task[c] = "done" =>
              /\ ExecutedOn(c, DOMAIN stress_predicted)
              /\ (results[c] = c) <=>
                    \A idx \in DOMAIN stress_predicted :
                        /\ ResultOn(c, idx)[1]
                        /\ Strip(ResultOn(c, idx)[2]) = Strip(stress_predicted[idx])
    /\ (op = "self_debug" /\ pc \in {"Passed", "Revising", "Exhausted"} /\ rounds > 0) =>
          /\ ExecutedOn(1, Inputs)
          /\ (pc = "Passed") <=>
                \A k \in Inputs :
                    /\ ResultOn(1, k)[1]
                    /\ Strip(ResultOn(1, k)[2]) = Strip(expected[k])

\* The oracle predicts "4" for the first input and "5" for the second; the
\* first candidate printed "4" and "5" and survives, the second printed "5"
\* and "4" and is dropped.
C25_Witness ==
    /\ FilterReturned
    /\ files = 2 /\ nInputs = 2
    /\ DOMAIN stress_predicted = {1, 2}
    /\ stress_predicted[1] = T4 /\ stress_predicted[2] = T5
    /\ ResultOn(1, 1) = <<TRUE, T4>> /\ ResultOn(1, 2) = <<TRUE, T5>>
    /\ ResultOn(2, 1) = <<TRUE, T5>> /\ ResultOn(2, 2) = <<TRUE, T4>>
    /\ ret = <<1>>

\* ---- properties of the oracle builders when executions fail

BuilderOp == op \in {"build_stress_predicted_tests", "build_stress_predicted_subset"}

\* every stress candidate was executed on input i and failed
AllFailedAt(i) == \A c \in Files : runs[<<c, i>>].st = "done" /\ ~runs[<<c, i>>].success

\* C24: an oracle builder never ends by an exception, it always comes to its
\* return, and an input index on which every stress candidate failed has no
\* oracle entry: for every min_agree, zero and negative included, and with
\* no stress candidate at all.
C24_NeverFailsOutright ==
    BuilderOp =>
        /\ pc # "raised"
        /\ pc # "returned" => ENABLED NextBuilders
        /\ pc = "returned" =>
              /\ ret = stress_predicted
              /\ DOMAIN ret \subseteq Inputs
              /\ \A i \in Inputs : AllFailedAt(i) => i \notin DOMAIN ret

\* The same for build_stress_predicted_tests of src/executor.py alone.
BuilderOfExecutorNeverFails ==
    op = "build_stress_predicted_tests" => C24_NeverFailsOutright

\* ---- properties of the order of the stages

\* no generate call of the run is unresolved
GenerationResolved ==
    \A g \in DOMAIN gen : /\ gen[g].resolved = gen[g].requested
                          /\ gen[g].inflight = 0
                          /\ gen[g].waiting = 0

\* no run_file call of the stage is unresolved and no gathered coroutine is
\* suspended
ExecutionsResolved ==
    /\ \A key \in DOMAIN runs : runs[key].st \in {"none", "done"}
    /\ waiters = <<>>
    /\ \A c \in DOMAIN task : task[c] # "awaiting"

\* One step of the run respects the barriers between stages.
Barrier ==
    /\ (stage = "generate" /\ stage' # "generate") => GenerationResolved
    /\ (stage \in {"verify", "build", "filter", "vote"} /\ stage' # stage) =>
          pc = "returned" /\ ExecutionsResolved
    /\ (stage = "build" /\ stage' # "build") =>
          /\ stage' = "filter"
          /\ stress_predicted = Predict(results_by_test, min_agree)
    /\ stage \in {"filter", "vote"} => stress_predicted' = stress_predicted
    /\ (stage = "filter" /\ stage' # "filter") =>
          /\ stage' = "vote"
          /\ \A c \in Files : DOMAIN stress_predicted # {} => task[c] = "done"

\* C21: the stages are separated by barriers.  No execution exists before
\* every generate call has resolved; a stage is left only when all its
\* executions have resolved; the filter starts with the complete oracle and
\* the oracle does not change afterwards; the vote starts when the filter has
\* decided on every candidate.
C21_StagesAreBarriers ==
    /\ [][Barrier]_vars
    /\ [](stage \in {"start", "generate"} =>
             \A key \in DOMAIN runs : runs[key].st = "none")
    /\ [](stage \in {"verify", "build", "filter", "vote", "done"} => gen = NoGen)

\* The filter is executing a candidate: both generators have returned two
\* files each and the oracle covers the input.
C21_Witness ==
    /\ stage = "filter"
    /\ cand_count = 2 /\ stress_count = 2
    /\ DOMAIN stress_predicted = {1}
    /\ \E key \in DOMAIN runs : runs[key].st = "running"

\* ---- properties of the two limiters

\* the generate_candidate calls that hold a permit of the LLMClient
GeneratingCalls == {c \in Files : task[c] = "Generating"}
\* the run calls that hold a permit of the CodeExecutor
RunningCalls == {key \in DOMAIN runs : runs[key].st = "running"}

=============================================================================
